---- MODULE Spec2Model ----
(***************************************************************************)
(* Model of embassy-sync's PubSubChannel (pubsub/mod.rs, subscriber.rs,    *)
(* publisher.rs) together with the MultiWakerRegistrar its futures use     *)
(* (waitqueue/multi_waker.rs).                                             *)
(*                                                                         *)
(* The channel state is the PubSubState struct; every method that runs     *)
(* inside `self.mutex.lock(|| ...)` is one atomic action.  A future's poll *)
(* takes the channel lock for get_message / try_publish and afterwards the *)
(* registrar's list lock for register / update, so a poll is two steps.    *)
(***************************************************************************)
EXTENDS Integers, Sequences, FiniteSets, TLC

\* ------------------------------------------------------------------------
\* Bounds of the model
\* ------------------------------------------------------------------------
\* const CAP: usize of PubSubChannel<M, T, CAP>
CAP == 2
\* accepted publishes per behaviour of the direct operations (caps next_message_id)
MaxId == 4
\* accepted publishes per behaviour when futures are polled too
MaxPolledId == 3
\* subscriber handles that can exist at the same time
NumSubs == 2
\* executor tasks (distinct wakers) that poll the futures
NumTasks == 2

Subs == 1 .. NumSubs
Tasks == 1 .. NumTasks
\* message payloads a publisher may send
Values == {42, 43}
\* the publisher's future, next to the subscribers' futures 1..NumSubs
PubFut == 0
Futs == {PubFut} \cup Subs

\* Item guards (and their nodes) that can exist at the same time
NumNodes == 3
\* elements a traversal may visit before it is taken to run for ever
MaxVisits == 8
Nodes == 1 .. NumNodes
\* the cursor is moved on only while its index is at most this
MaxIndex == 4
\* usize::MAX, with usize narrowed to 8 bits
UsizeMax == 255
\* the largest capacity N of a Deque<T, N> used on its own
MaxDequeN == 3
\* the items pushed to it
DequeValues == {7, 8}

VARIABLES
    next_message_id,   \* PubSubState::next_message_id
    subscriber_count,  \* PubSubState::subscriber_count
    publisher_count,   \* PubSubState::publisher_count
    queue,             \* PubSubState::queue, front first: [msg, clones, cnt]
    sub_alive,         \* which Sub handles exist
    sub_next_id,       \* Sub::next_message_id
    panicked,          \* an arithmetic overflow or unwrap aborted the program
    subscriber_wakers, \* PubSubChannel::subscriber_wakers, head first
    publisher_wakers,  \* PubSubChannel::publisher_wakers, head first
    fut,               \* Inner{Subscriber,Publisher}WaitFuture of each future
    reg,               \* InnerReg of the future's MultiWakerRegistration
    pc,                \* where a running poll stands
    task,              \* the task (waker) that polls the future
    woken,             \* the future's task has been woken and will poll it
    pub_msg,           \* the message held by the publisher's future
    \* history variables (not program state)
    published,         \* payload accepted under each of the last CAP message ids
    missed,            \* per Sub: unread messages evicted since its last read
    delivered,         \* per Sub: id of the last Message it received, or -1
    joined,            \* per Sub: how many messages were queued before it existed
    last,              \* the last operation and what it returned
    \* the intrusive list (intrusive_list/*.rs)
    node_links,        \* Node::links of every node: a NodeLinks value
    list_len,          \* RawIntrusiveList::len
    list_links,        \* RawIntrusiveList::links: Option<HeadTail>
    item_alive,        \* which Item guards exist (IntrusiveList::new_store)
    index,             \* Cursor::index
    current,           \* Cursor::current: Option<NodePtr>
    list_panicked,     \* a panic aborted the program inside a list operation
    debug_assertions,  \* the build: cfg(debug_assertions) and overflow checks
    borrowed,          \* the Items whose data the owner holds borrowed, unlocked
    other,             \* a second IntrusiveList: its Items, its len and links
    \* history variables of the list (not program state)
    order,             \* the linked nodes in the order the operations put them
    list_last,         \* the last list operation and what it did
    \* a Deque<T, N> on its own (deque.rs)
    deque,             \* Deque::start, Deque::len and Deque::buffer
    \* history variables of the deque (not program state)
    deque_ref,         \* the elements a bounded sequence would hold, front first
    deque_last         \* the last deque operation, what it returned and should

futVars == <<subscriber_wakers, publisher_wakers, fut, reg, pc, task, woken, pub_msg>>
histVars == <<published, missed, delivered, joined>>
chanVars == <<next_message_id, subscriber_count, publisher_count, queue,
              sub_alive, sub_next_id, panicked, subscriber_wakers, publisher_wakers,
              fut, reg, pc, task, woken, pub_msg, published, missed, delivered,
              joined, last>>
listVars == <<node_links, list_len, list_links, item_alive, index, current,
              list_panicked, debug_assertions, borrowed, other, order, list_last>>
dequeVars == <<deque, deque_ref, deque_last>>
vars == <<chanVars, listVars, dequeVars>>

\* ------------------------------------------------------------------------
\* Deque<(T, usize), CAP> as the channel uses it
\* ------------------------------------------------------------------------
\* is_full with the comparison off by one
is_full_above(q) == Len(q) > CAP

is_full(q) == Len(q) = CAP

push_back(q, item) == Append(q, item)

pop_front(q) == Tail(q)

front(q) == Head(q)

\* T::clone() of the test's CloneCallCounter: every clone adds one
clone(m) == [m EXCEPT !.clones = @ + 1]

\* what an operation returned
Ret(op, who, res, val, clones, id) ==
    [op |-> op, who |-> who, res |-> res, val |-> val, clones |-> clones, id |-> id,
     lag |-> 0, prev |-> -1]

NoRet == Ret("new", -1, "-", -1, -1, -1)

\* ------------------------------------------------------------------------
\* Channel
\* ------------------------------------------------------------------------
start_id == next_message_id - Len(queue)

\* PubSubChannel::space: the capacity of the queue minus its length
space == CAP - Len(queue)

\* PubSubChannel::available, for a subscriber whose cursor is next_id
available_queue_len(next_id) == Len(queue)

available(next_id) == next_message_id - next_id

\* PubSubChannel::new
ChanNew ==
    /\ next_message_id = 0
    /\ subscriber_count = 0
    /\ publisher_count = 0
    /\ queue = <<>>
    /\ sub_alive = [s \in Subs |-> FALSE]
    /\ sub_next_id = [s \in Subs |-> 0]
    /\ panicked = FALSE
    /\ subscriber_wakers = <<>>
    /\ publisher_wakers = <<>>
    /\ fut = [f \in Futs |-> "None"]
    /\ reg = [f \in Futs |-> "Empty"]
    /\ pc = [f \in Futs |-> "idle"]
    /\ task = [f \in Futs |-> 1]
    /\ woken = [f \in Futs |-> FALSE]
    /\ pub_msg = -1
    /\ published = <<>>
    /\ missed = [s \in Subs |-> 0]
    /\ delivered = [s \in Subs |-> -1]
    /\ joined = [s \in Subs |-> 0]
    /\ last = NoRet

\* NodeLinks::Unlinked, and the other link states with their neighbours; NoNode
\* stands for a neighbour that is absent
NoNode == 0
Unlinked == [kind |-> "Unlinked", prev |-> NoNode, next |-> NoNode]
Single == [kind |-> "Single", prev |-> NoNode, next |-> NoNode]
HeadOf(n) == [kind |-> "Head", prev |-> NoNode, next |-> n]
TailOf(p) == [kind |-> "Tail", prev |-> p, next |-> NoNode]
Full(p, n) == [kind |-> "Full", prev |-> p, next |-> n]

\* Option<HeadTail>::None
NoLinks == [head |-> NoNode, tail |-> NoNode]

\* what list_last holds before any list operation
NoListOp == [op |-> "new", node |-> NoNode, arg |-> -1, ret |-> -1,
             visited |-> <<>>, hang |-> FALSE, before |-> <<>>,
             at_head |-> FALSE, was_good |-> TRUE, len_before |-> 0,
             links_before |-> NoLinks, linked |-> FALSE, trav |-> <<>>]

\* IntrusiveList::new (RawIntrusiveList::new), no Item created yet
ListNew ==
    /\ node_links = [n \in Nodes |-> Unlinked]
    /\ list_len = 0
    /\ list_links = NoLinks
    /\ item_alive = [n \in Nodes |-> FALSE]
    /\ index = 0
    /\ current = NoNode
    /\ list_panicked = FALSE
    /\ borrowed = {}
    /\ other = [items |-> {}, len |-> 0, links |-> NoLinks]
    /\ order = <<>>
    /\ list_last = NoListOp

\* a slot of Deque::buffer that was never written
Uninit == 0

\* Deque::new with capacity N
Deque_new(N) == [start |-> 0, len |-> 0, buffer |-> [i \in 0 .. N - 1 |-> Uninit]]

DequeNew(N) ==
    /\ deque = Deque_new(N)
    /\ deque_ref = <<>>
    /\ deque_last = [op |-> "new", ret |-> [tag |-> "-", val |-> Uninit],
                     want |-> [tag |-> "-", val |-> Uninit]]

Init == ChanNew /\ ListNew /\ DequeNew(CAP) /\ debug_assertions = TRUE

\* a subscriber that starts reading at the oldest queued message
subscriber_from_start(s) ==
    /\ ~panicked
    /\ ~sub_alive[s]
    /\ subscriber_count' = subscriber_count + 1
    /\ sub_alive' = [sub_alive EXCEPT ![s] = TRUE]
    /\ sub_next_id' = [sub_next_id EXCEPT ![s] = start_id]
    /\ missed' = [missed EXCEPT ![s] = 0]
    /\ delivered' = [delivered EXCEPT ![s] = -1]
    /\ joined' = [joined EXCEPT ![s] = next_message_id]
    /\ last' = Ret("subscriber", s, "-", -1, -1, next_message_id)
    /\ UNCHANGED <<next_message_id, publisher_count, queue, panicked, published,
                   futVars>>

\* PubSubChannel::subscriber: the new subscriber starts at next_message_id
subscriber(s) ==
    /\ ~panicked
    /\ ~sub_alive[s]
    /\ subscriber_count' = subscriber_count + 1
    /\ sub_alive' = [sub_alive EXCEPT ![s] = TRUE]
    /\ sub_next_id' = [sub_next_id EXCEPT ![s] = next_message_id]
    /\ missed' = [missed EXCEPT ![s] = 0]
    /\ delivered' = [delivered EXCEPT ![s] = -1]
    /\ joined' = [joined EXCEPT ![s] = next_message_id]
    /\ last' = Ret("subscriber", s, "-", -1, -1, next_message_id)
    /\ UNCHANGED <<next_message_id, publisher_count, queue, panicked, published,
                   futVars>>

\* PubSubChannel::publisher
publisher ==
    /\ ~panicked
    /\ publisher_count = 0
    /\ publisher_count' = publisher_count + 1
    /\ last' = Ret("publisher", 0, "-", -1, -1, -1)
    /\ UNCHANGED <<next_message_id, subscriber_count, queue, sub_alive,
                   sub_next_id, panicked, histVars, futVars>>

\* PubSubChannel::unregister_publisher, from Pub::drop
unregister_publisher ==
    /\ ~panicked
    /\ publisher_count = 1
    /\ fut[PubFut] = "None"
    /\ publisher_count' = publisher_count - 1
    /\ last' = Ret("drop_pub", 0, "-", -1, -1, -1)
    /\ UNCHANGED <<next_message_id, subscriber_count, queue, sub_alive,
                   sub_next_id, panicked, histVars, futVars>>

\* try_publish_unchecked that counts one pending reader whatever subscriber_count is
try_publish_unchecked_one_reader(q, message) ==
    IF subscriber_count = 0
    THEN [res |-> "Ok", queue |-> q, next_id |-> next_message_id, wake |-> FALSE]
    ELSE IF is_full(q)
    THEN [res |-> "Err", queue |-> q, next_id |-> next_message_id, wake |-> FALSE]
    ELSE [res |-> "Ok",
          queue |-> push_back(q, [msg |-> message, clones |-> 0, cnt |-> 1]),
          next_id |-> next_message_id + 1,
          wake |-> TRUE]

\* try_publish_unchecked without the early return for subscriber_count == 0
try_publish_unchecked_no_early_return(q, message) ==
    IF is_full(q)
    THEN [res |-> "Err", queue |-> q, next_id |-> next_message_id, wake |-> FALSE]
    ELSE [res |-> "Ok",
          queue |-> push_back(q, [msg |-> message, clones |-> 0,
                                  cnt |-> subscriber_count]),
          next_id |-> next_message_id + 1,
          wake |-> TRUE]

\* PubSubChannel::try_publish_unchecked on the queue q its caller left:
\* the outcome and the queue, id counter and wake-up it leaves behind
try_publish_unchecked(q, message) ==
    IF subscriber_count = 0
    THEN [res |-> "Ok", queue |-> q, next_id |-> next_message_id, wake |-> FALSE]
    ELSE IF is_full(q)
    THEN [res |-> "Err", queue |-> q, next_id |-> next_message_id, wake |-> FALSE]
    ELSE [res |-> "Ok",
          queue |-> push_back(q, [msg |-> message, clones |-> 0,
                                  cnt |-> subscriber_count]),
          next_id |-> next_message_id + 1,
          wake |-> TRUE]

\* make_space that drops the newest entry instead of the oldest
make_space_back(q) == IF is_full(q) THEN SubSeq(q, 1, Len(q) - 1) ELSE q

\* the first half of PubSubChannel::publish_immediate: make space if required
make_space(q) == IF is_full(q) THEN pop_front(q) ELSE q

\* get_message that reports every lag as Lagged(1)
get_message_lagged_one(message_id) ==
    LET start == next_message_id - Len(queue)
        idx == message_id - start
    IN
    IF next_message_id < Len(queue)
    THEN [res |-> "Panic", n |-> 0, msg |-> -1, clones |-> -1, queue |-> queue,
          wake |-> FALSE]
    ELSE IF message_id < start
    THEN [res |-> "Lagged", n |-> 1, msg |-> -1, clones |-> -1,
          queue |-> queue, wake |-> FALSE]
    ELSE IF idx >= Len(queue)
    THEN [res |-> "None", n |-> 0, msg |-> -1, clones |-> -1, queue |-> queue,
          wake |-> FALSE]
    ELSE LET item == queue[idx + 1]
         IN  IF item.cnt = 0
             THEN [res |-> "Panic", n |-> 0, msg |-> -1, clones |-> -1,
                   queue |-> queue, wake |-> FALSE]
             ELSE IF idx = 0 /\ item.cnt - 1 = 0
             THEN [res |-> "Message", n |-> 1, msg |-> item.msg,
                   clones |-> item.clones, queue |-> pop_front(queue),
                   wake |-> TRUE]
             ELSE [res |-> "Message", n |-> 1, msg |-> item.msg,
                   clones |-> clone(item).clones,
                   queue |-> [queue EXCEPT ![idx + 1].cnt = @ - 1],
                   wake |-> FALSE]

\* get_message that clones the message also when it pops the entry
get_message_always_clone(message_id) ==
    LET start == next_message_id - Len(queue)
        idx == message_id - start
    IN
    IF next_message_id < Len(queue)
    THEN [res |-> "Panic", n |-> 0, msg |-> -1, clones |-> -1, queue |-> queue,
          wake |-> FALSE]
    ELSE IF message_id < start
    THEN [res |-> "Lagged", n |-> start - message_id, msg |-> -1, clones |-> -1,
          queue |-> queue, wake |-> FALSE]
    ELSE IF idx >= Len(queue)
    THEN [res |-> "None", n |-> 0, msg |-> -1, clones |-> -1, queue |-> queue,
          wake |-> FALSE]
    ELSE LET item == queue[idx + 1]
         IN  IF item.cnt = 0
             THEN [res |-> "Panic", n |-> 0, msg |-> -1, clones |-> -1,
                   queue |-> queue, wake |-> FALSE]
             ELSE IF idx = 0 /\ item.cnt - 1 = 0
             THEN [res |-> "Message", n |-> 1, msg |-> item.msg,
                   clones |-> clone(item).clones, queue |-> pop_front(queue),
                   wake |-> TRUE]
             ELSE [res |-> "Message", n |-> 1, msg |-> item.msg,
                   clones |-> clone(item).clones,
                   queue |-> [queue EXCEPT ![idx + 1].cnt = @ - 1],
                   wake |-> FALSE]

\* PubSubChannel::get_message for a subscriber whose cursor is message_id
get_message(message_id) ==
    LET start == next_message_id - Len(queue)
        idx == message_id - start
    IN
    IF next_message_id < Len(queue)
    THEN [res |-> "Panic", n |-> 0, msg |-> -1, clones |-> -1, queue |-> queue,
          wake |-> FALSE]
    ELSE IF message_id < start
    THEN [res |-> "Lagged", n |-> start - message_id, msg |-> -1, clones |-> -1,
          queue |-> queue, wake |-> FALSE]
    ELSE IF idx >= Len(queue)
    THEN [res |-> "None", n |-> 0, msg |-> -1, clones |-> -1, queue |-> queue,
          wake |-> FALSE]
    ELSE LET item == queue[idx + 1]
         IN  IF item.cnt = 0
             THEN [res |-> "Panic", n |-> 0, msg |-> -1, clones |-> -1,
                   queue |-> queue, wake |-> FALSE]
             ELSE IF idx = 0 /\ item.cnt - 1 = 0
             THEN [res |-> "Message", n |-> 1, msg |-> item.msg,
                   clones |-> item.clones, queue |-> pop_front(queue),
                   wake |-> TRUE]
             ELSE [res |-> "Message", n |-> 1, msg |-> item.msg,
                   clones |-> clone(item).clones,
                   queue |-> [queue EXCEPT ![idx + 1].cnt = @ - 1],
                   wake |-> FALSE]

\* msg_id_incr that does not count a Message
msg_id_incr_lag_only(r) ==
    IF r.res = "Lagged" THEN r.n ELSE 0

\* WaitResult::msg_id_incr, and the cursor update of Sub::try_next_message
msg_id_incr(r) ==
    IF r.res = "Lagged" THEN r.n ELSE IF r.res = "Message" THEN 1 ELSE 0

\* the `while let Some((_, count)) = l.queue.front()` loop of unregister_subscriber
RECURSIVE pop_read(_)
pop_read(q) ==
    IF q # <<>> /\ front(q).cnt = 0 THEN pop_read(pop_front(q)) ELSE q

\* PubSubChannel::unregister_subscriber for a subscriber whose cursor is
\* subscriber_next_message_id
unregister_subscriber_no_skip(subscriber_next_message_id) ==
    LET dec == [i \in 1 .. Len(queue) |-> [queue[i] EXCEPT !.cnt = @ - 1]]
    IN  IF subscriber_count = 0 \/ next_message_id < Len(queue)
        THEN [panic |-> TRUE, queue |-> queue, wake |-> FALSE]
        ELSE IF subscriber_next_message_id >= next_message_id - Len(queue)
        THEN IF \E i \in 1 .. Len(queue) : queue[i].cnt = 0
             THEN [panic |-> TRUE, queue |-> queue, wake |-> FALSE]
             ELSE [panic |-> FALSE, queue |-> pop_read(dec),
                   wake |-> pop_read(dec) # dec]
        ELSE [panic |-> FALSE, queue |-> queue, wake |-> FALSE]

unregister_subscriber(subscriber_next_message_id) ==
    LET start == next_message_id - Len(queue)
        idx == subscriber_next_message_id - start
        dec == [i \in 1 .. Len(queue) |->
                   IF i > idx THEN [queue[i] EXCEPT !.cnt = @ - 1] ELSE queue[i]]
    IN  IF subscriber_count = 0 \/ next_message_id < Len(queue)
        THEN [panic |-> TRUE, queue |-> queue, wake |-> FALSE]
        ELSE IF subscriber_next_message_id >= start
        THEN IF \E i \in 1 .. Len(queue) : i > idx /\ queue[i].cnt = 0
             THEN [panic |-> TRUE, queue |-> queue, wake |-> FALSE]
             ELSE [panic |-> FALSE, queue |-> pop_read(dec),
                   wake |-> pop_read(dec) # dec]
        ELSE [panic |-> FALSE, queue |-> queue, wake |-> FALSE]

\* ------------------------------------------------------------------------
\* MultiWakerRegistrar: a list of [node, waker] entries, head first
\* ------------------------------------------------------------------------
\* Waker::will_wake: both wakers wake the same task
will_wake(a, b) == a = b

\* MultiWakerRegistrar::register for the storage of future f
register(list, f, waker) ==
    IF ~ \E i \in 1 .. Len(list) : will_wake(waker, list[i].waker)
    THEN [list |-> Append(list, [node |-> f, waker |-> waker]), reg |-> "Registered"]
    ELSE [list |-> list, reg |-> "Unregistered"]

\* MultiWakerRegistration::will_wake
reg_will_wake(list, f, r, waker) ==
    /\ r = "Registered"
    /\ \E i \in 1 .. Len(list) : list[i].node = f /\ will_wake(list[i].waker, waker)

\* MultiWakerRegistrar::update
update_pushes(list, f, r, waker) ==
    IF reg_will_wake(list, f, r, waker)
    THEN [list |-> list, reg |-> r]
    ELSE IF r = "Unregistered"
    THEN register(list, f, waker)
    ELSE [list |-> Append(list, [node |-> f, waker |-> waker]), reg |-> "Registered"]

update(list, f, r, waker) ==
    IF reg_will_wake(list, f, r, waker)
    THEN [list |-> list, reg |-> r]
    ELSE IF r = "Unregistered"
    THEN register(list, f, waker)
    ELSE [list |-> [i \in 1 .. Len(list) |->
                       IF list[i].node = f
                       THEN [list[i] EXCEPT !.waker = waker]
                       ELSE list[i]],
          reg |-> "Registered"]

\* MultiWakerRegistrar::wake: the tasks whose wakers are invoked
wake(list) == {list[i].waker : i \in 1 .. Len(list)}

\* the list after MultiWakerRegistrar::wake
after_wake(list) == list

\* Drop of a MultiWakerRegistration: a Registered one wakes its own waker,
\* then its guard unlinks the node
drop_registration(list, f, r) ==
    IF r = "Registered"
    THEN [list |-> SelectSeq(list, LAMBDA e : e.node # f),
          woke |-> {list[i].waker : i \in {j \in 1 .. Len(list) : list[j].node = f}}]
    ELSE [list |-> list, woke |-> {}]

\* the wake flags once the wakers of the tasks ts have been invoked
wake_tasks(w, ts) ==
    [f \in Futs |-> w[f] \/ (fut[f] # "None" /\ task[f] \in ts)]

\* the wake flags after the wake-ups an operation makes: subscribers' wakers
\* when sw, publishers' wakers when pw
wake_after(w, sw, pw) ==
    wake_tasks(w, (IF sw THEN wake(subscriber_wakers) ELSE {})
                  \cup (IF pw THEN wake(publisher_wakers) ELSE {}))

\* history: the accepted message gets the next id; the payloads of the last CAP
\* ids are kept, older ones can no longer be delivered
accept(r, message) ==
    IF r.next_id # next_message_id
    THEN [i \in (DOMAIN published \cup {next_message_id}) \ (0 .. next_message_id - CAP)
             |-> IF i = next_message_id THEN message ELSE published[i]]
    ELSE published

\* history: the subscribers that had not read the entry publish_immediate evicts
evict(q) ==
    [s \in Subs |->
        IF is_full(q) /\ sub_alive[s] /\ sub_next_id[s] <= next_message_id - Len(q)
        THEN missed[s] + 1
        ELSE missed[s]]

\* ------------------------------------------------------------------------
\* Direct operations of Pub and Sub
\* ------------------------------------------------------------------------
\* Pub::try_publish
try_publish(message) ==
    LET r == try_publish_unchecked(queue, message)
    IN  /\ ~panicked
        /\ publisher_count = 1
        /\ fut[PubFut] = "None"
        /\ queue' = r.queue
        /\ next_message_id' = r.next_id
        /\ woken' = wake_after(woken, r.wake, FALSE)
        /\ subscriber_wakers' = IF r.wake THEN after_wake(subscriber_wakers)
                                ELSE subscriber_wakers
        /\ published' = accept(r, message)
        /\ last' = Ret("try_publish", PubFut, r.res, message, 0, next_message_id)
        /\ UNCHANGED <<subscriber_count, publisher_count, sub_alive, sub_next_id,
                       panicked, publisher_wakers, fut, reg, pc, task, pub_msg,
                       missed, delivered, joined>>

\* Pub::publish_immediate
publish_immediate(message) ==
    LET r == try_publish_unchecked(make_space(queue), message)
    IN  /\ ~panicked
        /\ publisher_count = 1
        /\ fut[PubFut] = "None"
        /\ queue' = r.queue
        /\ next_message_id' = r.next_id
        /\ panicked' = (r.res # "Ok")
        /\ woken' = wake_after(woken, r.wake, FALSE)
        /\ subscriber_wakers' = IF r.wake THEN after_wake(subscriber_wakers)
                                ELSE subscriber_wakers
        /\ published' = accept(r, message)
        /\ missed' = evict(queue)
        /\ last' = Ret("publish_immediate", PubFut, r.res, message, 0, next_message_id)
        /\ UNCHANGED <<subscriber_count, publisher_count, sub_alive, sub_next_id,
                       publisher_wakers, fut, reg, pc, task, pub_msg, delivered,
                       joined>>

\* the effect of a get_message by subscriber s, from try_next_message or a poll
receive(s, r, op) ==
    /\ queue' = r.queue
    /\ panicked' = (r.res = "Panic")
    /\ sub_next_id' = [sub_next_id EXCEPT ![s] = @ + msg_id_incr(r)]
    /\ publisher_wakers' = IF r.wake THEN after_wake(publisher_wakers)
                           ELSE publisher_wakers
    /\ missed' = [missed EXCEPT ![s] = IF r.res = "Lagged" THEN 0 ELSE @]
    /\ delivered' = [delivered EXCEPT ![s] = IF r.res = "Message" THEN sub_next_id[s]
                                             ELSE @]
    /\ last' = [Ret(op, s, r.res, IF r.res = "Lagged" THEN r.n ELSE r.msg, r.clones,
                    sub_next_id[s])
                   EXCEPT !.lag = missed[s], !.prev = delivered[s]]
    /\ UNCHANGED <<next_message_id, subscriber_count, publisher_count, sub_alive,
                   published, joined>>

\* Sub::try_next_message
try_next_message(s) ==
    LET r == get_message(sub_next_id[s])
    IN  /\ ~panicked
        /\ sub_alive[s]
        /\ fut[s] = "None"
        /\ receive(s, r, "try_next_message")
        /\ woken' = wake_after(woken, FALSE, r.wake)
        /\ UNCHANGED <<subscriber_wakers, fut, reg, pc, task, pub_msg>>

\* Sub::drop
drop_sub(s) ==
    LET r == unregister_subscriber(sub_next_id[s])
    IN  /\ ~panicked
        /\ sub_alive[s]
        /\ fut[s] = "None"
        /\ subscriber_count' = subscriber_count - 1
        /\ sub_alive' = [sub_alive EXCEPT ![s] = FALSE]
        /\ sub_next_id' = [sub_next_id EXCEPT ![s] = 0]
        /\ queue' = r.queue
        /\ panicked' = r.panic
        /\ woken' = wake_after(woken, FALSE, r.wake)
        /\ publisher_wakers' = IF r.wake THEN after_wake(publisher_wakers)
                               ELSE publisher_wakers
        /\ missed' = [missed EXCEPT ![s] = 0]
        /\ delivered' = [delivered EXCEPT ![s] = -1]
        /\ joined' = [joined EXCEPT ![s] = 0]
        /\ last' = Ret("drop_sub", s, "-", -1, -1, sub_next_id[s])
        /\ UNCHANGED <<next_message_id, publisher_count, subscriber_wakers, fut, reg,
                       pc, task, pub_msg, published>>

\* ------------------------------------------------------------------------
\* Futures: Sub::next_message and Pub::publish
\* ------------------------------------------------------------------------
\* Sub::next_message: SubscriberWaitFuture::new, to be polled by task t
next_message(s, t) ==
    /\ ~panicked
    /\ sub_alive[s]
    /\ fut[s] = "None"
    /\ fut' = [fut EXCEPT ![s] = "Init"]
    /\ task' = [task EXCEPT ![s] = t]
    /\ woken' = [woken EXCEPT ![s] = TRUE]
    /\ last' = Ret("next_message", s, "new", -1, -1, sub_next_id[s])
    /\ UNCHANGED <<next_message_id, subscriber_count, publisher_count, queue,
                   sub_alive, sub_next_id, panicked, subscriber_wakers,
                   publisher_wakers, reg, pc, pub_msg, histVars>>

\* SubscriberWaitFuture::poll up to the return of get_message
sub_poll_get(s) ==
    LET r == get_message(sub_next_id[s])
        d == drop_registration(subscriber_wakers, s, reg[s])
    IN  /\ ~panicked
        /\ s \in Subs
        /\ fut[s] # "None"
        /\ pc[s] = "idle"
        /\ woken[s]
        /\ receive(s, r, "poll_next_message")
        /\ IF r.res = "None"
           THEN /\ pc' = [pc EXCEPT ![s] = "reg"]
                /\ woken' = [woken EXCEPT ![s] = FALSE]
                /\ UNCHANGED <<subscriber_wakers, fut, reg, task>>
           ELSE /\ subscriber_wakers' = d.list
                /\ fut' = [fut EXCEPT ![s] = "None"]
                /\ reg' = [reg EXCEPT ![s] = "Empty"]
                /\ pc' = [pc EXCEPT ![s] = "idle"]
                /\ task' = [task EXCEPT ![s] = 1]
                /\ woken' = [wake_tasks(wake_after(woken, FALSE, r.wake), d.woke)
                              EXCEPT ![s] = FALSE]
        /\ UNCHANGED pub_msg

\* SubscriberWaitFuture::poll from subscriber_wakers.register / update to Pending
sub_poll_register(s) ==
    LET u == IF fut[s] = "Init"
             THEN register(subscriber_wakers, s, task[s])
             ELSE update(subscriber_wakers, s, reg[s], task[s])
    IN  /\ ~panicked
        /\ s \in Subs
        /\ pc[s] = "reg"
        /\ subscriber_wakers' = u.list
        /\ reg' = [reg EXCEPT ![s] = u.reg]
        /\ fut' = [fut EXCEPT ![s] = "Registered"]
        /\ pc' = [pc EXCEPT ![s] = "idle"]
        /\ last' = Ret("poll_register", s, u.reg, -1, -1, sub_next_id[s])
        /\ UNCHANGED <<next_message_id, subscriber_count, publisher_count, queue,
                       sub_alive, sub_next_id, panicked, publisher_wakers, task,
                       woken, pub_msg, histVars>>

\* Drop of a pending SubscriberWaitFuture between two polls
drop_sub_future(s) ==
    LET d == drop_registration(subscriber_wakers, s, reg[s])
    IN  /\ ~panicked
        /\ s \in Subs
        /\ fut[s] # "None"
        /\ pc[s] = "idle"
        /\ subscriber_wakers' = d.list
        /\ fut' = [fut EXCEPT ![s] = "None"]
        /\ reg' = [reg EXCEPT ![s] = "Empty"]
        /\ pc' = [pc EXCEPT ![s] = "idle"]
        /\ task' = [task EXCEPT ![s] = 1]
        /\ woken' = [wake_tasks(woken, d.woke) EXCEPT ![s] = FALSE]
        /\ last' = Ret("drop_next_message", s, "-", -1, -1, sub_next_id[s])
        /\ UNCHANGED <<next_message_id, subscriber_count, publisher_count, queue,
                       sub_alive, sub_next_id, panicked, publisher_wakers, pub_msg,
                       histVars>>

\* Pub::publish: PublisherWaitFuture::new, to be polled by task t
publish(message, t) ==
    /\ ~panicked
    /\ publisher_count = 1
    /\ fut[PubFut] = "None"
    /\ fut' = [fut EXCEPT ![PubFut] = "Init"]
    /\ task' = [task EXCEPT ![PubFut] = t]
    /\ woken' = [woken EXCEPT ![PubFut] = TRUE]
    /\ pub_msg' = message
    /\ last' = Ret("publish", PubFut, "new", message, 0, next_message_id)
    /\ UNCHANGED <<next_message_id, subscriber_count, publisher_count, queue,
                   sub_alive, sub_next_id, panicked, subscriber_wakers,
                   publisher_wakers, reg, pc, histVars>>

\* PublisherWaitFuture::poll up to the return of try_publish
pub_poll_try ==
    LET r == try_publish_unchecked(queue, pub_msg)
        d == drop_registration(publisher_wakers, PubFut, reg[PubFut])
    IN  /\ ~panicked
        /\ fut[PubFut] # "None"
        /\ pc[PubFut] = "idle"
        /\ woken[PubFut]
        /\ queue' = r.queue
        /\ next_message_id' = r.next_id
        /\ subscriber_wakers' = IF r.wake THEN after_wake(subscriber_wakers)
                                ELSE subscriber_wakers
        /\ published' = accept(r, pub_msg)
        /\ last' = Ret("poll_publish", PubFut, r.res, pub_msg, 0, next_message_id)
        /\ IF r.res = "Err"
           THEN /\ pc' = [pc EXCEPT ![PubFut] = "reg"]
                /\ woken' = [woken EXCEPT ![PubFut] = FALSE]
                /\ UNCHANGED <<publisher_wakers, fut, reg, task, pub_msg>>
           ELSE /\ publisher_wakers' = d.list
                /\ fut' = [fut EXCEPT ![PubFut] = "None"]
                /\ reg' = [reg EXCEPT ![PubFut] = "Empty"]
                /\ pc' = [pc EXCEPT ![PubFut] = "idle"]
                /\ task' = [task EXCEPT ![PubFut] = 1]
                /\ woken' = [wake_tasks(wake_after(woken, r.wake, FALSE), d.woke)
                              EXCEPT ![PubFut] = FALSE]
                /\ pub_msg' = -1
        /\ UNCHANGED <<subscriber_count, publisher_count, sub_alive, sub_next_id,
                       panicked, missed, delivered, joined>>

\* PublisherWaitFuture::poll from publisher_wakers.register / update to Pending
pub_poll_register ==
    LET u == IF fut[PubFut] = "Init"
             THEN register(publisher_wakers, PubFut, task[PubFut])
             ELSE update(publisher_wakers, PubFut, reg[PubFut], task[PubFut])
    IN  /\ ~panicked
        /\ pc[PubFut] = "reg"
        /\ publisher_wakers' = u.list
        /\ reg' = [reg EXCEPT ![PubFut] = u.reg]
        /\ fut' = [fut EXCEPT ![PubFut] = "Registered"]
        /\ pc' = [pc EXCEPT ![PubFut] = "idle"]
        /\ last' = Ret("poll_register", PubFut, u.reg, pub_msg, 0, next_message_id)
        /\ UNCHANGED <<next_message_id, subscriber_count, publisher_count, queue,
                       sub_alive, sub_next_id, panicked, subscriber_wakers, task,
                       woken, pub_msg, histVars>>

\* Drop of a pending PublisherWaitFuture between two polls
drop_pub_future ==
    LET d == drop_registration(publisher_wakers, PubFut, reg[PubFut])
    IN  /\ ~panicked
        /\ fut[PubFut] # "None"
        /\ pc[PubFut] = "idle"
        /\ publisher_wakers' = d.list
        /\ fut' = [fut EXCEPT ![PubFut] = "None"]
        /\ reg' = [reg EXCEPT ![PubFut] = "Empty"]
        /\ pc' = [pc EXCEPT ![PubFut] = "idle"]
        /\ task' = [task EXCEPT ![PubFut] = 1]
        /\ woken' = [wake_tasks(woken, d.woke) EXCEPT ![PubFut] = FALSE]
        /\ pub_msg' = -1
        /\ last' = Ret("drop_publish", PubFut, "-", -1, -1, next_message_id)
        /\ UNCHANGED <<next_message_id, subscriber_count, publisher_count, queue,
                       sub_alive, sub_next_id, panicked, subscriber_wakers, histVars>>

\* the payload published next in the runs with futures.  The channel is generic
\* over T: Clone and never inspects a payload, so what matters is which
\* messages differ: messages that can be queued together (CAP consecutive ids)
\* carry different payloads.  DirectNext draws every payload from Values.
PolledValues == {v \in Values : v % CAP = next_message_id % CAP}

Next ==
    \/ \E s \in Subs : subscriber(s) /\ UNCHANGED <<listVars, dequeVars>>
    \/ publisher /\ UNCHANGED <<listVars, dequeVars>>
    \/ unregister_publisher /\ UNCHANGED <<listVars, dequeVars>>
    \/ \E m \in PolledValues : next_message_id < MaxPolledId /\ try_publish(m) /\ UNCHANGED <<listVars, dequeVars>>
    \/ \E m \in PolledValues : next_message_id < MaxPolledId /\ publish_immediate(m) /\ UNCHANGED <<listVars, dequeVars>>
    \/ \E s \in Subs : try_next_message(s) /\ UNCHANGED <<listVars, dequeVars>>
    \/ \E s \in Subs : drop_sub(s) /\ UNCHANGED <<listVars, dequeVars>>
    \/ \E s \in Subs, t \in Tasks : next_message(s, t) /\ UNCHANGED <<listVars, dequeVars>>
    \/ \E s \in Subs : sub_poll_get(s) /\ UNCHANGED <<listVars, dequeVars>>
    \/ \E s \in Subs : sub_poll_register(s) /\ UNCHANGED <<listVars, dequeVars>>
    \/ \E s \in Subs : drop_sub_future(s) /\ UNCHANGED <<listVars, dequeVars>>
    \/ \E m \in PolledValues, t \in Tasks : next_message_id < MaxPolledId /\ publish(m, t) /\ UNCHANGED <<listVars, dequeVars>>
    \/ pub_poll_try /\ UNCHANGED <<listVars, dequeVars>>
    \/ pub_poll_register /\ UNCHANGED <<listVars, dequeVars>>
    \/ drop_pub_future /\ UNCHANGED <<listVars, dequeVars>>

Spec == Init /\ [][Next]_vars

\* the channel used through the direct operations only
DirectNext ==
    \/ \E s \in Subs : subscriber(s) /\ UNCHANGED <<listVars, dequeVars>>
    \/ publisher /\ UNCHANGED <<listVars, dequeVars>>
    \/ unregister_publisher /\ UNCHANGED <<listVars, dequeVars>>
    \/ \E m \in Values : next_message_id < MaxId /\ try_publish(m) /\ UNCHANGED <<listVars, dequeVars>>
    \/ \E m \in Values : next_message_id < MaxId /\ publish_immediate(m) /\ UNCHANGED <<listVars, dequeVars>>
    \/ \E s \in Subs : try_next_message(s) /\ UNCHANGED <<listVars, dequeVars>>
    \/ \E s \in Subs : drop_sub(s) /\ UNCHANGED <<listVars, dequeVars>>

DirectSpec == Init /\ [][DirectNext]_vars

\* ------------------------------------------------------------------------
\* A MultiWakerRegistrar used on its own: subscriber_wakers stands for the
\* registrar, reg[f] for the registration made with the storage f
\* ------------------------------------------------------------------------
\* what a registrar operation did: val is the waker handed in (for wake the
\* number of entries it found), calls the wakers whose wake callback was invoked,
\* in order, again whether the operation before was a wake as well
RegRet(op, who, res, val, calls) ==
    [op |-> op, who |-> who, res |-> res, val |-> val, clones |-> -1, id |-> -1,
     lag |-> 0, prev |-> -1, calls |-> calls, again |-> (last.op = "wake")]

\* MultiWakerRegistrar::wake: the wake callbacks invoked, one per entry, in list
\* order
wake_calls(list) == [i \in 1 .. Len(list) |-> list[i].waker]

\* the wake-ups pending after the tasks ts were woken: task[f] is the task whose
\* waker the registration of f was last given, woken[f] whether that task was
\* woken since
reg_woken(w, ts) == [f \in Futs |-> w[f] \/ (reg[f] # "Empty" /\ task[f] \in ts)]

\* MultiWakerRegistrar::register with the unused storage f and the waker w
reg_register(f, w) ==
    /\ reg[f] = "Empty"
    /\ \E u \in {register(subscriber_wakers, f, w)} :
          /\ subscriber_wakers' = u.list
          /\ reg' = [reg EXCEPT ![f] = u.reg]
          /\ last' = RegRet("register", f, u.reg, w, <<>>)
    /\ task' = [task EXCEPT ![f] = w]
    /\ woken' = [woken EXCEPT ![f] = FALSE]
    /\ UNCHANGED <<next_message_id, subscriber_count, publisher_count, queue,
                   sub_alive, sub_next_id, panicked, publisher_wakers, fut, pc,
                   pub_msg, histVars>>

\* the task the waker held by the registration of f wakes, -1 when the
\* registration holds none
StoredWaker(list, f, r) ==
    IF r = "Registered" /\ \E i \in 1 .. Len(list) : list[i].node = f
    THEN list[CHOOSE i \in 1 .. Len(list) : list[i].node = f].waker
    ELSE -1

\* MultiWakerRegistrar::update of the registration of f with the waker w
reg_update(f, w) ==
    /\ reg[f] # "Empty"
    /\ \E u \in {update(subscriber_wakers, f, reg[f], w)} :
          /\ subscriber_wakers' = u.list
          /\ reg' = [reg EXCEPT ![f] = u.reg]
          /\ last' = [RegRet("update", f, u.reg, w, <<>>) EXCEPT
                         !.prev = StoredWaker(subscriber_wakers, f, reg[f])]
    /\ task' = [task EXCEPT ![f] = w]
    /\ woken' = [woken EXCEPT ![f] = FALSE]
    /\ UNCHANGED <<next_message_id, subscriber_count, publisher_count, queue,
                   sub_alive, sub_next_id, panicked, publisher_wakers, fut, pc,
                   pub_msg, histVars>>

\* MultiWakerRegistrar::wake
reg_wake ==
    /\ subscriber_wakers' = after_wake(subscriber_wakers)
    /\ last' = RegRet("wake", -1, "-", Len(subscriber_wakers),
                      wake_calls(subscriber_wakers))
    /\ woken' = reg_woken(woken, wake(subscriber_wakers))
    /\ UNCHANGED <<next_message_id, subscriber_count, publisher_count, queue,
                   sub_alive, sub_next_id, panicked, publisher_wakers, fut, reg, pc,
                   task, pub_msg, histVars>>

\* Drop of the MultiWakerRegistration of f
reg_drop(f) ==
    /\ reg[f] # "Empty"
    /\ \E d \in {drop_registration(subscriber_wakers, f, reg[f])} :
          /\ subscriber_wakers' = d.list
          /\ reg' = [reg EXCEPT ![f] = "Empty"]
          /\ last' = RegRet("drop", f, reg[f], -1,
                            wake_calls(SelectSeq(subscriber_wakers,
                                                 LAMBDA e : e.node = f)))
          /\ woken' = [reg_woken(woken, d.woke) EXCEPT ![f] = FALSE]
    /\ task' = [task EXCEPT ![f] = 1]
    /\ UNCHANGED <<next_message_id, subscriber_count, publisher_count, queue,
                   sub_alive, sub_next_id, panicked, publisher_wakers, fut, pc,
                   pub_msg, histVars>>

RegNext ==
    \/ \E f \in Futs, w \in Tasks : reg_register(f, w) /\ UNCHANGED <<listVars, dequeVars>>
    \/ \E f \in Futs, w \in Tasks : reg_update(f, w) /\ UNCHANGED <<listVars, dequeVars>>
    \/ reg_wake /\ UNCHANGED <<listVars, dequeVars>>
    \/ \E f \in Futs : reg_drop(f) /\ UNCHANGED <<listVars, dequeVars>>

RegSpec == Init /\ [][RegNext]_vars

\* ------------------------------------------------------------------------
\* The intrusive list: Node / NodeLinks / NodeRef (node.rs)
\* ------------------------------------------------------------------------
\* The operations below take and return the state of the list and of the
\* cursor as one record; once a panic has happened nothing is changed any more.
ListState ==
    [links |-> node_links, len |-> list_len, ht |-> list_links,
     index |-> index, current |-> current, panic |-> list_panicked]

Panic(S) == [S EXCEPT !.panic = TRUE]

\* NodeRef::update_links: replaces the link state of node n
update_links(S, n, lk) == IF S.panic THEN S ELSE [S EXCEPT !.links[n] = lk]

\* NodeLinks::next
NodeLinks_next(lk) == IF lk.kind \in {"Head", "Full"} THEN lk.next ELSE NoNode

\* NodeLinks::prev
NodeLinks_prev(lk) == IF lk.kind \in {"Tail", "Full"} THEN lk.prev ELSE NoNode

\* NodeLinks::set_next
NodeLinks_set_next(S, n, node) ==
    LET lk == S.links[n]
    IN  IF S.panic THEN S
        ELSE CASE lk.kind = "Unlinked" -> Panic(S)
               [] lk.kind = "Single" -> update_links(S, n, HeadOf(node))
               [] lk.kind = "Tail" -> update_links(S, n, Full(lk.prev, node))
               [] OTHER -> update_links(S, n, [lk EXCEPT !.next = node])

\* NodeLinks::clear_prev
NodeLinks_clear_prev(S, n) ==
    LET lk == S.links[n]
    IN  IF S.panic THEN S
        ELSE CASE lk.kind = "Tail" -> update_links(S, n, Single)
               [] lk.kind = "Full" -> update_links(S, n, HeadOf(lk.next))
               [] OTHER -> Panic(S)

\* NodeLinks::clear_next
NodeLinks_clear_next(S, n) ==
    LET lk == S.links[n]
    IN  IF S.panic THEN S
        ELSE CASE lk.kind = "Head" -> update_links(S, n, Single)
               [] lk.kind = "Full" -> update_links(S, n, TailOf(lk.prev))
               [] OTHER -> Panic(S)

\* NodeRef::next
NodeRef_next(S, n) == NodeLinks_next(S.links[n])

\* NodeRef::prev: the code returns get_links().next()
NodeRef_prev(S, n) == NodeLinks_next(S.links[n])

\* NodeRef::set_next
NodeRef_set_next(S, n, node) == NodeLinks_set_next(S, n, node)

\* NodeRef::set_prev: the code calls get_links_mut().set_next(node)
NodeRef_set_prev(S, n, node) == NodeLinks_set_next(S, n, node)

\* get_links_mut() of node n while the links of node held are mutably borrowed:
\* the DebugCell is a RefCell with debug_assertions and panics on the second
\* borrow; without them it is an UnsafeCell and the write goes through
Borrowed(S, held, n) ==
    IF ~S.panic /\ debug_assertions /\ held = n THEN Panic(S) ELSE S

\* NodeRef::insert_before: links node in front of node n
NodeRef_insert_before(S, n, node) ==
    LET S1 == NodeRef_set_next(S, node, n)
        lk == S1.links[n]
    IN  IF S1.panic THEN S1
        ELSE CASE lk.kind = "Unlinked" -> Panic(S1)
               [] lk.kind = "Single" -> update_links(S1, n, HeadOf(node))
               [] lk.kind = "Head" -> update_links(S1, n, Full(node, lk.next))
               [] OTHER ->
                    LET old == lk.prev
                        S2 == update_links(S1, n, [lk EXCEPT !.prev = node])
                        S3 == NodeRef_set_prev(Borrowed(S2, n, old), old, node)
                    IN  NodeRef_set_prev(Borrowed(S3, n, node), node, old)

\* NodeRef::insert_after: links node behind node n
NodeRef_insert_after(S, n, node) ==
    LET S1 == NodeRef_set_prev(S, node, n)
        lk == S1.links[n]
    IN  IF S1.panic THEN S1
        ELSE CASE lk.kind = "Unlinked" -> Panic(S1)
               [] lk.kind = "Single" -> update_links(S1, n, HeadOf(node))
               [] lk.kind = "Tail" -> update_links(S1, n, Full(lk.prev, node))
               [] OTHER ->
                    LET old == lk.next
                        S2 == update_links(S1, n, [lk EXCEPT !.next = node])
                        S3 == NodeRef_set_prev(Borrowed(S2, n, old), old, node)
                    IN  NodeRef_set_next(Borrowed(S3, n, node), node, old)

\* NodeRef::remove: clears the links of node n and stitches its neighbours; the
\* link state the node had is what the function returns
NodeRef_remove(S, n) ==
    LET lk == S.links[n]
        S1 == update_links(S, n, Unlinked)
    IN  IF S.panic THEN S
        ELSE CASE lk.kind = "Head" -> NodeLinks_clear_prev(S1, lk.next)
               [] lk.kind = "Tail" -> NodeLinks_clear_next(S1, lk.prev)
               [] lk.kind = "Full" ->
                    NodeRef_set_next(NodeRef_set_prev(S1, lk.next, lk.prev),
                                     lk.prev, lk.next)
               [] OTHER -> S1

\* ------------------------------------------------------------------------
\* RawIntrusiveList and RawCursor (raw.rs)
\* ------------------------------------------------------------------------
\* usize arithmetic: with overflow checks (the debug build) an overflow panics,
\* without them the value wraps
usize_sub1(S, i) ==
    IF i > 0 THEN [S EXCEPT !.index = i - 1]
    ELSE IF debug_assertions THEN Panic(S) ELSE [S EXCEPT !.index = UsizeMax]

usize_add1(S, i) ==
    IF i < UsizeMax THEN [S EXCEPT !.index = i + 1]
    ELSE IF debug_assertions THEN Panic(S) ELSE [S EXCEPT !.index = 0]

saturating_sub1(i) == IF i > 0 THEN i - 1 ELSE 0

\* RawIntrusiveList::insert_head
RawIntrusiveList_insert_head(S, head) ==
    LET S1 == update_links(S, head, Single)
    IN  IF S1.panic THEN S1
        ELSE IF S1.ht # NoLinks
        THEN NodeRef_insert_before([S1 EXCEPT !.ht.head = head], S1.ht.head, head)
        ELSE [S1 EXCEPT !.ht = [head |-> head, tail |-> head]]

\* RawIntrusiveList::insert_tail
RawIntrusiveList_insert_tail(S, tail) ==
    LET S1 == update_links(S, tail, Single)
    IN  IF S1.panic THEN S1
        ELSE IF S1.ht # NoLinks
        THEN NodeRef_insert_after([S1 EXCEPT !.ht.tail = tail], S1.ht.tail, tail)
        ELSE [S1 EXCEPT !.ht = [head |-> tail, tail |-> tail]]

\* RawIntrusiveList::remove
RawIntrusiveList_remove(S, node) ==
    LET l == S.links[node]
        S1 == NodeRef_remove(S, node)
        S2 == CASE l.kind = "Unlinked" ->
                     Panic([S1 EXCEPT !.len = 0, !.ht = NoLinks])
                [] l.kind = "Single" -> [S1 EXCEPT !.len = 0, !.ht = NoLinks]
                [] l.kind = "Head" ->
                     IF S1.ht = NoLinks THEN Panic([S1 EXCEPT !.len = 0])
                     ELSE [S1 EXCEPT !.ht.head = l.next]
                [] l.kind = "Tail" ->
                     IF S1.ht = NoLinks THEN Panic([S1 EXCEPT !.len = 0])
                     ELSE [S1 EXCEPT !.ht.tail = l.prev]
                [] OTHER -> S1
    IN  IF S.panic THEN S
        ELSE IF S1.panic THEN S1
        ELSE IF S2.panic THEN S2
        ELSE [S2 EXCEPT !.len = saturating_sub1(S2.len)]

\* RawIntrusiveList::cursor: a new cursor stands at the head, if there is one
cursor(S) == [S EXCEPT !.current = S.ht.head, !.index = 0]

\* RawCursor::insert_head
RawCursor_insert_head(S, node) ==
    LET S1 == RawIntrusiveList_insert_head(S, node)
        S2 == [S1 EXCEPT !.len = @ + 1]
    IN  IF S1.panic THEN S1
        ELSE IF S2.current = NoNode
        THEN [S2 EXCEPT !.current = node, !.index = 0]
        ELSE S2

\* RawCursor::insert_tail
RawCursor_insert_tail(S, node) ==
    LET S1 == RawIntrusiveList_insert_tail(S, node)
        S2 == [S1 EXCEPT !.len = @ + 1]
    IN  IF S1.panic THEN S1
        ELSE IF S2.current = NoNode
        THEN [S2 EXCEPT !.current = node, !.index = 0]
        ELSE S2

\* RawCursor::insert_after
RawCursor_insert_after(S, node) ==
    IF S.panic THEN S
    ELSE IF S.current # NoNode
    THEN LET S1 == NodeRef_insert_after(S, S.current, node)
         IN  IF S1.panic THEN S1 ELSE [S1 EXCEPT !.len = @ + 1]
    ELSE RawCursor_insert_tail(S, node)

\* RawCursor::insert_before
RawCursor_insert_before(S, node) ==
    IF S.panic THEN S
    ELSE IF S.current # NoNode
    THEN LET S1 == NodeRef_insert_before(S, S.current, node)
         IN  IF S1.panic THEN S1 ELSE [S1 EXCEPT !.len = @ + 1]
    ELSE RawCursor_insert_head(S, node)

\* RawCursor::remove: removes the current node; the cursor moves to
\* n.prev() with idx - 1, or else to n.next() with idx, or else is unset
RawCursor_remove(S) ==
    IF S.panic \/ S.current = NoNode THEN S
    ELSE LET n == S.current
             p == NodeRef_prev(S, n)
             x == NodeRef_next(S, n)
             S1 == IF p # NoNode
                   THEN [usize_sub1(S, S.index) EXCEPT !.current = p]
                   ELSE [S EXCEPT !.current = x]
             S2 == RawIntrusiveList_remove([S1 EXCEPT !.current = NoNode], n)
         IN  IF S1.panic THEN S1
             ELSE IF S2.panic THEN S2
             ELSE [S2 EXCEPT !.current = S1.current]

\* ------------------------------------------------------------------------
\* Cursor (cursor.rs), on the list operations of RawCursor
\* ------------------------------------------------------------------------
\* Cursor::is_empty
is_empty(S) == S.len = 0

\* Cursor::is_tail: the current node is the last one of the list
is_tail(S) == S.current # NoNode /\ S.links[S.current].kind \in {"Tail", "Single"}

\* Cursor::seek_head
seek_head(S) == IF S.panic THEN S ELSE [S EXCEPT !.current = S.ht.head, !.index = 0]

\* Cursor::seek_tail
seek_tail(S) ==
    IF S.panic THEN S
    ELSE [S EXCEPT !.current = S.ht.tail, !.index = saturating_sub1(S.len)]

\* Cursor::seek_next
seek_next(S) ==
    IF S.panic THEN S
    ELSE IF S.current # NoNode /\ NodeRef_next(S, S.current) # NoNode
    THEN [usize_add1(S, S.index) EXCEPT !.current = NodeRef_next(S, S.current)]
    ELSE seek_head(S)

\* Cursor::seek_prev
seek_prev(S) ==
    IF S.panic THEN S
    ELSE IF S.current # NoNode /\ NodeRef_prev(S, S.current) # NoNode
    THEN [S EXCEPT !.current = NodeRef_prev(S, S.current),
                   !.index = saturating_sub1(S.index)]
    ELSE seek_tail(S)

\* `for _ in 0..steps { self.seek_next() }` and the same with seek_prev
RECURSIVE seek_steps(_, _, _)
seek_steps(S, steps, is_after) ==
    IF steps = 0 \/ S.panic THEN S
    ELSE seek_steps(IF is_after THEN seek_next(S) ELSE seek_prev(S),
                    steps - 1, is_after)

\* enum SeekFrom
SeekFrom(from, v) == [from |-> from, v |-> v]

abs(v) == IF v < 0 THEN -v ELSE v

\* the `update` of SeekFrom::find_min: whether n replaces the minimum min
find_min_update(n, min) ==
    CASE n.from # "Current" /\ min.from # "Current" -> n.v < min.v
      [] n.from = "Current" /\ min.from # "Current" -> abs(n.v) <= min.v
      [] n.from = "Current" /\ min.from = "Current" -> abs(n.v) < abs(min.v)
      [] OTHER -> n.v < abs(min.v)

\* SeekFrom::find_min over a non-empty sequence
RECURSIVE find_min_from(_, _)
find_min_from(min, i) ==
    IF i = <<>> THEN min
    ELSE find_min_from(IF find_min_update(i[1], min) THEN i[1] ELSE min,
                       SubSeq(i, 2, Len(i)))

find_min(i) == find_min_from(i[1], SubSeq(i, 2, Len(i)))

\* Cursor::min_seek
min_seek_past_len(S, idx) ==
    LET diff_current == S.index - idx
    IN  IF idx = 0 THEN SeekFrom("Head", 0)
        ELSE IF idx > S.len THEN SeekFrom("Tail", 0)
        ELSE IF diff_current = 0 THEN SeekFrom("Current", 0)
        ELSE find_min(<<SeekFrom("Current", diff_current),
                        SeekFrom("Head", idx),
                        SeekFrom("Head", S.len - idx)>>)

min_seek(S, idx) ==
    LET diff_current == S.index - idx
    IN  IF idx = 0 THEN SeekFrom("Head", 0)
        ELSE IF idx >= S.len THEN SeekFrom("Tail", 0)
        ELSE IF diff_current = 0 THEN SeekFrom("Current", 0)
        ELSE find_min(<<SeekFrom("Current", diff_current),
                        SeekFrom("Head", idx),
                        SeekFrom("Head", S.len - idx)>>)

\* Cursor::seek
seek(S, idx) ==
    LET m == min_seek(S, idx)
    IN  CASE m.from = "Head" -> seek_steps(seek_head(S), m.v, TRUE)
          [] m.from = "Tail" -> seek_steps(seek_tail(S), m.v, FALSE)
          [] OTHER -> seek_steps(S, abs(m.v), m.v >= 0)

\* Cursor::insert
insert(S, idx, node) ==
    LET m == min_seek(S, idx)
        S1 == CASE m.from = "Head" -> seek_head(S)
                [] m.from = "Tail" -> seek_tail(S)
                [] OTHER -> S
        is_after == IF m.from = "Current" THEN m.v > 0 ELSE m.v # 0
        S2 == seek_steps(S1, saturating_sub1(abs(m.v)), is_after)
    IN  IF S.panic THEN S
        ELSE IF idx = 0 THEN RawCursor_insert_head(S, node)
        ELSE IF idx >= S.len THEN RawCursor_insert_tail(S, node)
        ELSE IF S2.panic THEN S2
        ELSE IF S2.current = NoNode THEN Panic(S2)
        ELSE IF is_after THEN RawCursor_insert_after(S2, node)
        ELSE RawCursor_insert_before(S2, node)

\* the loop of Cursor::inner_fold with a closure that breaks on the nodes of
\* stop: the elements visited, as <<index, node>>, the index the closure broke
\* at (-1 if it did not) and whether the loop is still running after fuel
\* elements
RECURSIVE inner_fold_loop(_, _, _, _)
inner_fold_loop(S, stop, visited, fuel) ==
    IF S.panic THEN [S |-> S, visited |-> visited, brk |-> -1, hang |-> FALSE]
    ELSE IF fuel = 0 THEN [S |-> S, visited |-> visited, brk |-> -1, hang |-> TRUE]
    ELSE IF S.current = NoNode
    THEN [S |-> Panic(S), visited |-> visited, brk |-> -1, hang |-> FALSE]
    ELSE LET v == Append(visited, <<S.index, S.current>>)
         IN  IF S.current \in stop
             THEN [S |-> S, visited |-> v, brk |-> S.index, hang |-> FALSE]
             ELSE IF is_tail(S)
             THEN [S |-> S, visited |-> v, brk |-> -1, hang |-> FALSE]
             ELSE inner_fold_loop(seek_next(S), stop, v, fuel - 1)

\* Cursor::inner_fold
inner_fold(S, stop) ==
    LET S1 == IF S.current = NoNode THEN [S EXCEPT !.current = S.ht.head] ELSE S
    IN  IF S.panic \/ is_empty(S1)
        THEN [S |-> S1, visited |-> <<>>, brk |-> -1, hang |-> FALSE]
        ELSE inner_fold_loop(S1, stop, <<>>, MaxVisits)

\* Cursor::for_each: the closure never breaks
for_each(S) == inner_fold(S, {})

\* Cursor::position with a closure that is true on the nodes of match
position(S, match) == inner_fold(S, match)

\* Cursor::insert_before with a closure that is true on the nodes of match; ret
\* is the index the function returns
insert_before(S, node, match) ==
    LET pos == position(S, match)
        p == saturating_sub1(pos.brk)
    IN  IF pos.S.panic \/ pos.hang THEN [S |-> pos.S, ret |-> -1, hang |-> pos.hang]
        ELSE IF pos.brk >= 0
        THEN [S |-> insert(pos.S, p, node), ret |-> p, hang |-> FALSE]
        ELSE [S |-> RawCursor_insert_head(pos.S, node), ret |-> 0, hang |-> FALSE]

\* Cursor::insert_after with a closure that is true on the nodes of match; ret
\* is the index the function returns (p + 1 and len() - 1 are usize)
insert_after(S, node, match) ==
    LET pos == position(S, match)
        p1 == IF pos.brk < UsizeMax THEN pos.brk + 1 ELSE 0
        T == RawCursor_insert_tail(pos.S, node)
    IN  IF pos.S.panic \/ pos.hang THEN [S |-> pos.S, ret |-> -1, hang |-> pos.hang]
        ELSE IF pos.brk >= 0
        THEN IF pos.brk = UsizeMax /\ debug_assertions
             THEN [S |-> Panic(pos.S), ret |-> -1, hang |-> FALSE]
             ELSE [S |-> insert(pos.S, p1, node), ret |-> p1, hang |-> FALSE]
        ELSE IF T.panic THEN [S |-> T, ret |-> -1, hang |-> FALSE]
        ELSE IF T.len = 0
        THEN IF debug_assertions THEN [S |-> Panic(T), ret |-> -1, hang |-> FALSE]
             ELSE [S |-> T, ret |-> UsizeMax, hang |-> FALSE]
        ELSE [S |-> T, ret |-> T.len - 1, hang |-> FALSE]

\* the loop of Cursor::retain with a closure that is true on the nodes of keep
RECURSIVE retain_loop(_, _, _, _)
retain_loop(S, keep, visited, fuel) ==
    IF S.panic THEN [S |-> S, visited |-> visited, hang |-> FALSE]
    ELSE IF fuel = 0 THEN [S |-> S, visited |-> visited, hang |-> TRUE]
    ELSE IF S.current = NoNode
    THEN [S |-> Panic(S), visited |-> visited, hang |-> FALSE]
    ELSE LET v == Append(visited, <<S.index, S.current>>)
             S1 == IF S.current \in keep THEN S ELSE RawCursor_remove(S)
         IN  IF S1.panic \/ is_tail(S1)
             THEN [S |-> S1, visited |-> v, hang |-> FALSE]
             ELSE retain_loop(seek_next(S1), keep, v, fuel - 1)

\* Cursor::retain
retain(S, keep) ==
    IF S.panic \/ is_empty(S) THEN [S |-> S, visited |-> <<>>, hang |-> FALSE]
    ELSE retain_loop(IF S.current = NoNode THEN seek_head(S) ELSE S,
                     keep, <<>>, MaxVisits)

\* ------------------------------------------------------------------------
\* Operations on the list; each runs inside the list's lock
\* ------------------------------------------------------------------------
\* the program is still running: no panic and no traversal that never returns
Running == ~list_panicked /\ ~list_last.hang

\* the state of the list and the cursor after an operation
SetList(S) ==
    /\ node_links' = S.links
    /\ list_len' = S.len
    /\ list_links' = S.ht
    /\ index' = S.index
    /\ current' = S.current
    /\ list_panicked' = S.panic

\* the nodes a traversal visited, without their indices
NodesOf(visited) == [i \in 1 .. Len(visited) |-> visited[i][2]]

\* the nodes a for_each of a new cursor at the head of the list visits, <<-1>>
\* if it panics or never returns
TraversalOf(S) ==
    LET r == for_each(seek_head(S))
    IN  IF r.hang \/ r.S.panic THEN <<-1>> ELSE NodesOf(r.visited)

\* the list is as the operations so far should have left it: a traversal from
\* the head visits the linked nodes in their order, each once
Good == ~list_panicked /\ TraversalOf(ListState) = order /\ list_len = Len(order)

\* what list_last records of an operation that leaves the list in state S: the
\* operation and its result, the list and the cursor before it, and what a
\* traversal from the head visits after it
ListOp(op, node, arg, ret, visited, hang, S) ==
    [op |-> op, node |-> node, arg |-> arg, ret |-> ret, visited |-> visited,
     hang |-> hang, before |-> order,
     at_head |-> (current = list_links.head /\ index = 0),
     was_good |-> Good, len_before |-> list_len, links_before |-> list_links,
     linked |-> (node # NoNode /\ node_links[node].kind # "Unlinked"),
     trav |-> TraversalOf(S)]

\* the sequence q with x put at position i (0-based), the sequence q without x
InsertAt(q, i, x) == SubSeq(q, 1, i) \o <<x>> \o SubSeq(q, i + 1, Len(q))
Without(q, x) == SelectSeq(q, LAMBDA y : y # x)

\* IntrusiveList::new_store: a guard with its node unlinked
new_store(n) ==
    /\ Running
    /\ ~item_alive[n]
    /\ item_alive' = [item_alive EXCEPT ![n] = TRUE]
    /\ list_last' = ListOp("new_store", n, -1, -1, <<>>, FALSE, ListState)
    /\ UNCHANGED <<node_links, list_len, list_links, index, current, list_panicked,
                   debug_assertions, order>>

\* IntrusiveList::with_cursor: a new cursor over the list
with_cursor ==
    /\ Running
    /\ \E S \in {cursor(ListState)} :
          /\ SetList(S)
          /\ list_last' = ListOp("with_cursor", NoNode, -1, -1, <<>>, FALSE, S)
          /\ UNCHANGED <<item_alive, debug_assertions, order>>

\* the cursor can be moved on
Movable == Running /\ index <= MaxIndex

\* an Item that can be inserted: it exists and its node is not linked
Insertable(n) == Movable /\ item_alive[n] /\ node_links[n].kind = "Unlinked"

\* Cursor::insert_head
cursor_insert_head(n) ==
    /\ Insertable(n)
    /\ \E S \in {RawCursor_insert_head(ListState, n)} :
          /\ SetList(S)
          /\ order' = <<n>> \o order
          /\ list_last' = ListOp("insert_head", n, -1, -1, <<>>, FALSE, S)
          /\ UNCHANGED <<item_alive, debug_assertions>>

\* Cursor::insert_tail
cursor_insert_tail(n) ==
    /\ Insertable(n)
    /\ \E S \in {RawCursor_insert_tail(ListState, n)} :
          /\ SetList(S)
          /\ order' = Append(order, n)
          /\ list_last' = ListOp("insert_tail", n, -1, -1, <<>>, FALSE, S)
          /\ UNCHANGED <<item_alive, debug_assertions>>

\* Cursor::insert(index, item)
cursor_insert(idx, n) ==
    /\ Insertable(n)
    /\ \E S \in {insert(ListState, idx, n)} :
          /\ SetList(S)
          /\ order' = InsertAt(order, IF idx < Len(order) THEN idx ELSE Len(order), n)
          /\ list_last' = ListOp("insert", n, idx, -1, <<>>, FALSE, S)
          /\ UNCHANGED <<item_alive, debug_assertions>>

\* the position of the first element of q from position i (1-based) on that is
\* in match, 0 if there is none
RECURSIVE FirstMatch(_, _, _)
FirstMatch(q, i, match) ==
    IF i > Len(q) THEN 0
    ELSE IF q[i] \in match THEN i
    ELSE FirstMatch(q, i + 1, match)

\* Cursor::insert_before(item, f), f being true on the nodes of match
cursor_insert_before(n, match) ==
    /\ Insertable(n)
    /\ \E r \in {insert_before(ListState, n, match)}, m \in {FirstMatch(order, 1, match)} :
          /\ SetList(r.S)
          /\ order' = IF m = 0 THEN <<n>> \o order ELSE InsertAt(order, m - 1, n)
          /\ list_last' = ListOp("insert_before", n, m - 1, r.ret, <<>>, r.hang, r.S)
          /\ UNCHANGED <<item_alive, debug_assertions>>

\* Cursor::insert_after(item, f), f being true on the nodes of match
cursor_insert_after(n, match) ==
    /\ Insertable(n)
    /\ \E r \in {insert_after(ListState, n, match)}, m \in {FirstMatch(order, 1, match)} :
          /\ SetList(r.S)
          /\ order' = IF m = 0 THEN Append(order, n) ELSE InsertAt(order, m, n)
          /\ list_last' = ListOp("insert_after", n, m - 1, r.ret, <<>>, r.hang, r.S)
          /\ UNCHANGED <<item_alive, debug_assertions>>

\* Cursor::seek(index)
cursor_seek(idx) ==
    /\ Movable
    /\ \E S \in {seek(ListState, idx)} :
          /\ SetList(S)
          /\ list_last' = ListOp("seek", NoNode, idx, -1, <<>>, FALSE, S)
          /\ UNCHANGED <<item_alive, debug_assertions, order>>

\* Cursor::seek_tail
cursor_seek_tail ==
    /\ Running
    /\ \E S \in {seek_tail(ListState)} :
          /\ SetList(S)
          /\ list_last' = ListOp("seek_tail", NoNode, -1, -1, <<>>, FALSE, S)
          /\ UNCHANGED <<item_alive, debug_assertions, order>>

\* Cursor::seek_next
cursor_seek_next ==
    /\ Movable
    /\ \E S \in {seek_next(ListState)} :
          /\ SetList(S)
          /\ list_last' = ListOp("seek_next", NoNode, -1, -1, <<>>, FALSE, S)
          /\ UNCHANGED <<item_alive, debug_assertions, order>>

\* Cursor::for_each
\* Cursor::seek_prev
cursor_seek_prev ==
    /\ Movable
    /\ \E S \in {seek_prev(ListState)} :
          /\ SetList(S)
          /\ list_last' = ListOp("seek_prev", NoNode, -1, -1, <<>>, FALSE, S)
          /\ UNCHANGED <<item_alive, debug_assertions, order>>

cursor_for_each ==
    /\ Movable
    /\ \E r \in {for_each(ListState)} :
          /\ SetList(r.S)
          /\ list_last' = ListOp("for_each", NoNode, -1, -1, r.visited, r.hang, r.S)
          /\ UNCHANGED <<item_alive, debug_assertions, order>>

\* Cursor::retain(f), f being true on the nodes of keep
cursor_retain(keep) ==
    /\ Movable
    /\ \E r \in {retain(ListState, keep)} :
          /\ SetList(r.S)
          /\ order' = SelectSeq(order, LAMBDA y : y \in keep)
          /\ list_last' = ListOp("retain", NoNode, Cardinality(keep), -1,
                                  r.visited, r.hang, r.S)
          /\ UNCHANGED <<item_alive, debug_assertions>>

\* Cursor::remove: removes the node the cursor stands at
cursor_remove ==
    /\ Running
    /\ \E S \in {RawCursor_remove(ListState)} :
          /\ SetList(S)
          /\ order' = Without(order, current)
          /\ list_last' = ListOp("remove", current, -1, -1, <<>>, FALSE, S)
          /\ UNCHANGED <<item_alive, debug_assertions>>

\* Item::remove, that is IntrusiveList::remove(item): takes the lock itself, so
\* that a cursor used afterwards is a new one
item_remove(n) ==
    /\ Running
    /\ item_alive[n]
    /\ \E S \in {RawIntrusiveList_remove(ListState, n)} :
          /\ SetList(cursor(S))
          /\ order' = Without(order, n)
          /\ list_last' = ListOp("item_remove", n, -1, -1, <<>>, FALSE, S)
          /\ UNCHANGED <<item_alive, debug_assertions>>

\* Item::drop: the guard removes its node and is gone
item_drop(n) ==
    /\ Running
    /\ item_alive[n]
    /\ \E S \in {RawIntrusiveList_remove(ListState, n)} :
          /\ SetList(cursor(S))
          /\ item_alive' = [item_alive EXCEPT ![n] = FALSE]
          /\ order' = Without(order, n)
          /\ list_last' = ListOp("item_drop", n, -1, -1, <<>>, FALSE, S)
          /\ UNCHANGED debug_assertions

\* Cursor::position(f), f being true on the nodes of match; any(f) is true when
\* it returns an index, all(not f) when it returns none
cursor_position(match) ==
    /\ Movable
    /\ \E r \in {position(ListState, match)} :
          /\ SetList(r.S)
          /\ list_last' = ListOp("position", NoNode, -1, r.brk, r.visited, r.hang, r.S)
          /\ UNCHANGED <<item_alive, debug_assertions, order>>

\* Item::lock by the owner of the guard of node n, up to the point where f runs.
\* try_borrow_mut reads is_linked without the lock of the list: for an unlinked
\* node the owner borrows the data and f runs with the list unlocked (ret 0); for
\* a linked node the whole of f runs inside with_cursor (ret 1), one step here.
item_lock(n) ==
    /\ Running
    /\ item_alive[n]
    /\ n \notin borrowed
    /\ IF node_links[n].kind = "Unlinked"
       THEN /\ borrowed' = borrowed \cup {n}
            /\ list_last' = ListOp("lock", n, -1, 0, <<>>, FALSE, ListState)
            /\ UNCHANGED <<node_links, list_len, list_links, index, current,
                           list_panicked>>
       ELSE \E S \in {cursor(ListState)} :
               /\ SetList(S)
               /\ list_last' = ListOp("lock", n, -1, 1, <<>>, FALSE, S)
               /\ UNCHANGED borrowed
    /\ UNCHANGED <<item_alive, debug_assertions, order>>

\* Item::lock, unlinked branch: f returns and the borrow of the data ends
item_unlock(n) ==
    /\ Running
    /\ n \in borrowed
    /\ borrowed' = borrowed \ {n}
    /\ list_last' = ListOp("unlock", n, -1, 0, <<>>, FALSE, ListState)
    /\ UNCHANGED <<node_links, list_len, list_links, item_alive, index, current,
                   list_panicked, debug_assertions, order>>

ListNext ==
    \/ \E n \in Nodes : new_store(n) /\ UNCHANGED <<chanVars, dequeVars, borrowed, other>>
    \/ with_cursor /\ UNCHANGED <<chanVars, dequeVars, borrowed, other>>
    \/ \E n \in Nodes : cursor_insert_head(n) /\ UNCHANGED <<chanVars, dequeVars, borrowed, other>>
    \/ \E n \in Nodes : cursor_insert_tail(n) /\ UNCHANGED <<chanVars, dequeVars, borrowed, other>>
    \/ \E n \in Nodes, idx \in 0 .. NumNodes : cursor_insert(idx, n) /\ UNCHANGED <<chanVars, dequeVars, borrowed, other>>
    \/ \E n \in Nodes, match \in SUBSET Nodes :
          cursor_insert_before(n, match) /\ UNCHANGED <<chanVars, dequeVars, borrowed, other>>
    \/ \E n \in Nodes, match \in SUBSET Nodes :
          cursor_insert_after(n, match) /\ UNCHANGED <<chanVars, dequeVars, borrowed, other>>
    \/ \E idx \in 0 .. NumNodes : cursor_seek(idx) /\ UNCHANGED <<chanVars, dequeVars, borrowed, other>>
    \/ cursor_seek_tail /\ UNCHANGED <<chanVars, dequeVars, borrowed, other>>
    \/ cursor_seek_next /\ UNCHANGED <<chanVars, dequeVars, borrowed, other>>
    \/ cursor_seek_prev /\ UNCHANGED <<chanVars, dequeVars, borrowed, other>>
    \/ cursor_for_each /\ UNCHANGED <<chanVars, dequeVars, borrowed, other>>
    \/ \E match \in SUBSET Nodes : cursor_position(match) /\ UNCHANGED <<chanVars, dequeVars, borrowed, other>>
    \/ \E keep \in SUBSET Nodes : cursor_retain(keep) /\ UNCHANGED <<chanVars, dequeVars, borrowed, other>>
    \/ cursor_remove /\ UNCHANGED <<chanVars, dequeVars, borrowed, other>>
    \/ \E n \in Nodes : item_remove(n) /\ UNCHANGED <<chanVars, dequeVars, borrowed, other>>
    \/ \E n \in Nodes : item_drop(n) /\ UNCHANGED <<chanVars, dequeVars, borrowed, other>>

ListInit == ChanNew /\ ListNew /\ DequeNew(CAP) /\ debug_assertions \in BOOLEAN

ListSpec == ListInit /\ [][ListNext]_vars

\* the list used by the owners of the guards and by other tasks that traverse
\* it.  Every cursor operation runs inside with_cursor, under the lock of the
\* list, and is one step.  While Item::lock runs its closure the owner holds
\* Pin<&mut Item>, so nobody can insert, remove or drop that Item; a cursor of
\* another task can still remove its node.
LockNext ==
    \/ \E n \in Nodes : new_store(n) /\ UNCHANGED <<chanVars, dequeVars, borrowed, other>>
    \/ with_cursor /\ UNCHANGED <<chanVars, dequeVars, borrowed, other>>
    \/ \E n \in Nodes \ borrowed : cursor_insert_head(n) /\ UNCHANGED <<chanVars, dequeVars, borrowed, other>>
    \/ \E n \in Nodes \ borrowed : cursor_insert_tail(n) /\ UNCHANGED <<chanVars, dequeVars, borrowed, other>>
    \/ cursor_for_each /\ UNCHANGED <<chanVars, dequeVars, borrowed, other>>
    \/ cursor_remove /\ UNCHANGED <<chanVars, dequeVars, borrowed, other>>
    \/ \E n \in Nodes \ borrowed : item_remove(n) /\ UNCHANGED <<chanVars, dequeVars, borrowed, other>>
    \/ \E n \in Nodes : item_lock(n) /\ UNCHANGED <<chanVars, dequeVars, other>>
    \/ \E n \in Nodes : item_unlock(n) /\ UNCHANGED <<chanVars, dequeVars, other>>

LockSpec == ListInit /\ [][LockNext]_vars

\* ------------------------------------------------------------------------
\* Registering again: insert_tail or insert_head with a guard whose node is
\* linked already, as the threads of test.rs do when they draw Register twice
\* without a Deregister between
\* ------------------------------------------------------------------------
\* an Item whose node is linked, and a list short enough to insert into
Reinsertable(n) ==
    /\ Movable
    /\ item_alive[n]
    /\ node_links[n].kind # "Unlinked"
    /\ list_len <= NumNodes

\* Cursor::insert_tail with a linked node; the node is in the list already, so
\* the order of the elements is to stay as it is
cursor_reinsert_tail(n) ==
    /\ Reinsertable(n)
    /\ \E S \in {RawCursor_insert_tail(ListState, n)} :
          /\ SetList(S)
          /\ list_last' = ListOp("reinsert_tail", n, -1, -1, <<>>, FALSE, S)
          /\ UNCHANGED <<item_alive, debug_assertions, order>>

\* Cursor::insert_head with a linked node
cursor_reinsert_head(n) ==
    /\ Reinsertable(n)
    /\ \E S \in {RawCursor_insert_head(ListState, n)} :
          /\ SetList(S)
          /\ list_last' = ListOp("reinsert_head", n, -1, -1, <<>>, FALSE, S)
          /\ UNCHANGED <<item_alive, debug_assertions, order>>

ReinsertNext ==
    \/ \E n \in Nodes : new_store(n) /\ UNCHANGED <<chanVars, dequeVars, borrowed, other>>
    \/ with_cursor /\ UNCHANGED <<chanVars, dequeVars, borrowed, other>>
    \/ \E n \in Nodes :
          cursor_insert_tail(n) /\ UNCHANGED <<chanVars, dequeVars, borrowed, other>>
    \/ \E n \in Nodes :
          cursor_reinsert_tail(n) /\ UNCHANGED <<chanVars, dequeVars, borrowed, other>>
    \/ \E n \in Nodes :
          cursor_reinsert_head(n) /\ UNCHANGED <<chanVars, dequeVars, borrowed, other>>
    \/ cursor_for_each /\ UNCHANGED <<chanVars, dequeVars, borrowed, other>>
    \/ \E n \in Nodes : item_remove(n) /\ UNCHANGED <<chanVars, dequeVars, borrowed, other>>

ReinsertSpec == ListInit /\ [][ReinsertNext]_vars

\* ------------------------------------------------------------------------
\* Deque<T, N>: a ring buffer of N slots
\* ------------------------------------------------------------------------
\* DequeRef::capacity: the length of the buffer
capacity(d) == Cardinality(DOMAIN d.buffer)

\* DequeRef::end
end(d) == (d.start + d.len) % capacity(d)

\* DequeRef::prev_idx (checked_sub)
prev_idx_saturating(d, idx) == IF idx >= 1 THEN idx - 1 ELSE 0

prev_idx(d, idx) == IF idx >= 1 THEN idx - 1 ELSE capacity(d) - 1

\* DequeRef::next_idx
next_idx(d, idx) == (idx + 1) % capacity(d)

DequeRef_is_empty(d) == d.len = 0

DequeRef_is_full(d) == d.len = capacity(d)

\* the slots first .. first + n - 1 of the buffer as a sequence
Slice(d, first, n) == [i \in 1 .. n |-> d.buffer[first + i - 1]]

\* DequeRef::as_slices
as_slices(d) ==
    IF DequeRef_is_empty(d) THEN <<<<>>, <<>>>>
    ELSE IF d.start >= end(d)
    THEN <<Slice(d, d.start, capacity(d) - d.start), Slice(d, 0, end(d))>>
    ELSE <<Slice(d, d.start, d.len), <<>>>>

\* DequeRef::iter: the first slice chained with the second
iter(d) == as_slices(d)[1] \o as_slices(d)[2]

\* what a call returns: Ok(()), Err(item), None or Some(item)
Ok == [tag |-> "Ok", val |-> Uninit]
Err(item) == [tag |-> "Err", val |-> item]
None == [tag |-> "None", val |-> Uninit]
Some(item) == [tag |-> "Some", val |-> item]

\* DequeRef::pop_front with pop_front_unchecked
DequeRef_pop_front(d) ==
    IF DequeRef_is_empty(d) THEN [d |-> d, ret |-> None]
    ELSE [d |-> [d EXCEPT !.start = next_idx(d, d.start), !.len = d.len - 1],
          ret |-> Some(d.buffer[d.start])]

\* DequeRef::pop_back with pop_back_unchecked
DequeRef_pop_back(d) ==
    IF DequeRef_is_empty(d) THEN [d |-> d, ret |-> None]
    ELSE [d |-> [d EXCEPT !.len = d.len - 1],
          ret |-> Some(d.buffer[prev_idx(d, end(d))])]

\* DequeRef::push_front with push_front_unchecked
DequeRef_push_front(d, item) ==
    IF DequeRef_is_full(d) THEN [d |-> d, ret |-> Err(item)]
    ELSE [d |-> [d EXCEPT !.buffer[prev_idx(d, d.start)] = item,
                          !.start = prev_idx(d, d.start),
                          !.len = d.len + 1],
          ret |-> Ok]

\* DequeRef::push_back with push_back_unchecked
DequeRef_push_back(d, item) ==
    IF DequeRef_is_full(d) THEN [d |-> d, ret |-> Err(item)]
    ELSE [d |-> [d EXCEPT !.buffer[end(d)] = item, !.len = d.len + 1],
          ret |-> Ok]

\* the calls, each with what a bounded double-ended sequence of the same
\* capacity does and returns
deque_push_back(item) ==
    /\ \E r \in {DequeRef_push_back(deque, item)} :
          /\ deque' = r.d
          /\ deque_last' = [op |-> "push_back", ret |-> r.ret,
                            want |-> IF Len(deque_ref) = capacity(deque)
                                     THEN Err(item) ELSE Ok]
    /\ deque_ref' = IF Len(deque_ref) = capacity(deque)
                    THEN deque_ref ELSE Append(deque_ref, item)

deque_push_front(item) ==
    /\ \E r \in {DequeRef_push_front(deque, item)} :
          /\ deque' = r.d
          /\ deque_last' = [op |-> "push_front", ret |-> r.ret,
                            want |-> IF Len(deque_ref) = capacity(deque)
                                     THEN Err(item) ELSE Ok]
    /\ deque_ref' = IF Len(deque_ref) = capacity(deque)
                    THEN deque_ref ELSE <<item>> \o deque_ref

deque_pop_front ==
    /\ \E r \in {DequeRef_pop_front(deque)} :
          /\ deque' = r.d
          /\ deque_last' = [op |-> "pop_front", ret |-> r.ret,
                            want |-> IF deque_ref = <<>> THEN None
                                     ELSE Some(Head(deque_ref))]
    /\ deque_ref' = IF deque_ref = <<>> THEN <<>> ELSE Tail(deque_ref)

deque_pop_back ==
    /\ \E r \in {DequeRef_pop_back(deque)} :
          /\ deque' = r.d
          /\ deque_last' = [op |-> "pop_back", ret |-> r.ret,
                            want |-> IF deque_ref = <<>> THEN None
                                     ELSE Some(deque_ref[Len(deque_ref)])]
    /\ deque_ref' = IF deque_ref = <<>> THEN <<>>
                    ELSE SubSeq(deque_ref, 1, Len(deque_ref) - 1)

DequeNext ==
    \/ \E item \in DequeValues : deque_push_back(item) /\ UNCHANGED <<chanVars, listVars>>
    \/ \E item \in DequeValues : deque_push_front(item) /\ UNCHANGED <<chanVars, listVars>>
    \/ deque_pop_front /\ UNCHANGED <<chanVars, listVars>>
    \/ deque_pop_back /\ UNCHANGED <<chanVars, listVars>>

DequeInit ==
    /\ ChanNew
    /\ ListNew
    /\ debug_assertions = TRUE
    /\ \E N \in 1 .. MaxDequeN : DequeNew(N)

DequeSpec == DequeInit /\ [][DequeNext]_vars

\* ------------------------------------------------------------------------
\* Two lists: the list above and a second IntrusiveList of the same type.  The
\* nodes of the Items of both are the same kind of Node, and nothing in an
\* Item, a Cursor or a list operation tells the lists apart.
\* ------------------------------------------------------------------------
\* the nodes whose guards the second list makes; the first list makes the rest
OtherNodes == {NumNodes}

\* the second list as the raw operations see it
OtherState ==
    [links |-> node_links, len |-> other.len, ht |-> other.links,
     index |-> 0, current |-> NoNode, panic |-> list_panicked]

\* the second list after an operation that leaves it in state S
SetOther(S, items) ==
    /\ node_links' = S.links
    /\ list_panicked' = S.panic
    /\ other' = [items |-> items, len |-> S.len, links |-> S.ht]

\* IntrusiveList::new_store of the second list: a guard whose list is that one
other_new_store(n) ==
    /\ Running
    /\ ~item_alive[n]
    /\ item_alive' = [item_alive EXCEPT ![n] = TRUE]
    /\ other' = [other EXCEPT !.items = @ \cup {n}]
    /\ list_last' = ListOp("other_new_store", n, -1, -1, <<>>, FALSE, ListState)
    /\ UNCHANGED <<node_links, list_len, list_links, index, current, list_panicked,
                   debug_assertions, borrowed, order>>

\* with_cursor of the second list, Cursor::insert_head of one of its own Items
other_insert_head(n) ==
    /\ Running
    /\ item_alive[n]
    /\ n \in other.items
    /\ node_links[n].kind = "Unlinked"
    /\ \E S \in {RawCursor_insert_head(OtherState, n)} :
          /\ SetOther(S, other.items)
          /\ list_last' = ListOp("other_insert_head", n, -1, -1, <<>>, FALSE, ListState)
    /\ UNCHANGED <<list_len, list_links, item_alive, index, current,
                   debug_assertions, borrowed, order>>

\* Item::drop of an Item of the second list: the remove goes to its own list,
\* whichever list its node is linked into
other_item_drop(n) ==
    /\ Running
    /\ item_alive[n]
    /\ n \in other.items
    /\ \E S \in {RawIntrusiveList_remove(OtherState, n)} :
          /\ SetOther(S, other.items \ {n})
          /\ list_last' = ListOp("other_item_drop", n, -1, -1, <<>>, FALSE, ListState)
    /\ item_alive' = [item_alive EXCEPT ![n] = FALSE]
    /\ order' = Without(order, n)
    /\ UNCHANGED <<list_len, list_links, index, current, debug_assertions, borrowed>>

\* the Items of both lists used with the cursor and the remove of the first
\* one.  A remove through the wrong list does not lower len, so the inserts are
\* cut off at NumNodes entries.
TwoListNext ==
    \/ \E n \in Nodes \ OtherNodes : new_store(n) /\ UNCHANGED <<chanVars, dequeVars, borrowed, other>>
    \/ \E n \in OtherNodes : other_new_store(n) /\ UNCHANGED <<chanVars, dequeVars>>
    \/ with_cursor /\ UNCHANGED <<chanVars, dequeVars, borrowed, other>>
    \/ \E n \in Nodes :
          /\ list_len < NumNodes
          /\ cursor_insert_head(n) /\ UNCHANGED <<chanVars, dequeVars, borrowed, other>>
    \/ \E n \in Nodes :
          /\ list_len < NumNodes
          /\ cursor_insert_tail(n) /\ UNCHANGED <<chanVars, dequeVars, borrowed, other>>
    \/ \E n \in Nodes : item_remove(n) /\ UNCHANGED <<chanVars, dequeVars, borrowed, other>>
    \/ \E n \in Nodes :
          /\ other.len < NumNodes
          /\ other_insert_head(n) /\ UNCHANGED <<chanVars, dequeVars>>
    \/ \E n \in Nodes : other_item_drop(n) /\ UNCHANGED <<chanVars, dequeVars>>

TwoListSpec == ListInit /\ [][TwoListNext]_vars

\* ------------------------------------------------------------------------
\* Properties
\* ------------------------------------------------------------------------
\* the operations through which a subscriber reads: Sub::try_next_message and
\* the get_message of a poll of Sub::next_message
ReadOps == {"try_next_message", "poll_next_message"}

\* the last step was a read by a subscriber
Read == last.op \in ReadOps

\* C1: broadcast fan-out.  A subscriber from which no unread message was evicted
\* and that has not read everything published receives, on its read, the payload
\* accepted under the id its cursor stood at, and moves past it (so it gets it
\* once); a subscriber that has read everything published gets None.
C1_FanOut ==
    Read =>
        /\ last.res \in {"None", "Lagged", "Message"}
        /\ (last.lag = 0 /\ last.id < next_message_id) =>
               /\ last.res = "Message"
               /\ last.val = published[last.id]
        /\ last.res = "Message" =>
               /\ last.val = published[last.id]
               /\ delivered[last.who] = last.id
               /\ sub_next_id[last.who] = last.id + 1
        /\ last.id = next_message_id =>
               /\ last.res = "None"
               /\ sub_next_id[last.who] = last.id

\* C1 witness: a subscriber receives a message that another registered
\* subscriber has received as well
C1_Witness ==
    /\ Read
    /\ last.res = "Message"
    /\ \E s \in Subs \ {last.who} : sub_alive[s] /\ delivered[s] = last.id

\* C2: per-subscriber ordering.  In every step, whoever takes it, the cursor of
\* a subscriber that stays registered does not decrease, and when the subscriber
\* is delivered a Message its id is above the id of the Message delivered to it
\* before and is the id its cursor stood at.
C2_Order ==
    [][\A s \in Subs :
          (sub_alive[s] /\ sub_alive'[s]) =>
              /\ sub_next_id'[s] >= sub_next_id[s]
              /\ delivered'[s] >= delivered[s]
              /\ delivered'[s] # delivered[s] =>
                     /\ delivered'[s] > delivered[s]
                     /\ delivered'[s] = sub_next_id[s]
                     /\ sub_next_id'[s] = sub_next_id[s] + 1
                     /\ last'.res = "Message" /\ last'.who = s]_vars

\* C2 witness: a subscriber is delivered a second Message while the other
\* subscriber, registered too, has read less
C2_Witness ==
    /\ Read
    /\ last.res = "Message"
    /\ last.prev >= 0
    /\ \E s \in Subs \ {last.who} : sub_alive[s] /\ sub_next_id[s] < last.id

\* C3: lag semantics.  A read returns Lagged exactly when unread messages of the
\* subscriber were evicted; the count is the number of those messages and is
\* start_id - id; the cursor advances by it and then stands at the oldest queued
\* message, which the following read returns.
C3_Lag ==
    /\ Read => (last.res = "Lagged" <=> last.lag > 0)
    /\ (Read /\ last.res = "Lagged") =>
           /\ last.val = last.lag
           /\ last.val = start_id - last.id
           /\ sub_next_id[last.who] = last.id + last.val
           /\ sub_next_id[last.who] = start_id
           /\ queue # <<>>
    /\ (Read /\ last.res = "Message" /\ last.id = start_id - 1) =>
           last.val = published[last.id]

\* C3 witness: a subscriber is told that it missed two messages
C3_Witness ==
    /\ Read
    /\ last.res = "Lagged"
    /\ last.val = 2

\* C4: backpressure.  With a subscriber registered, try_publish on a full queue
\* returns Err with the message it was given and changes nothing of the channel;
\* on a queue that is not full it returns Ok and appends one entry.
C4_Backpressure ==
    [][\A m \in Values :
          (try_publish(m) /\ subscriber_count >= 1) =>
              IF Len(queue) = CAP
              THEN /\ last'.res = "Err"
                   /\ last'.val = m
                   /\ queue' = queue
                   /\ next_message_id' = next_message_id
                   /\ subscriber_count' = subscriber_count
                   /\ sub_next_id' = sub_next_id
              ELSE /\ last'.res = "Ok"
                   /\ Len(queue') = Len(queue) + 1
                   /\ next_message_id' = next_message_id + 1]_vars

\* C4 witness: one subscriber that has read nothing, CAP publishes accepted, and
\* the next try_publish has failed
C4_Witness ==
    /\ last.op = "try_publish"
    /\ last.res = "Err"
    /\ subscriber_count = 1
    /\ next_message_id = CAP
    /\ Len(queue) = CAP
    /\ \E s \in Subs : sub_alive[s] /\ sub_next_id[s] = 0

\* C5: with no subscriber registered try_publish returns Ok and leaves the queue
\* and next_message_id as they are.
C5_NoSubscribers ==
    [][\A m \in Values :
          (try_publish(m) /\ subscriber_count = 0) =>
              /\ last'.res = "Ok"
              /\ queue' = queue
              /\ next_message_id' = next_message_id
              /\ published' = published]_vars

\* C5 witness: try_publish has returned Ok with no subscriber registered
C5_Witness ==
    /\ last.op = "try_publish"
    /\ last.res = "Ok"
    /\ subscriber_count = 0
    /\ sub_alive = [s \in Subs |-> FALSE]

\* C6: publish_immediate on a full queue with a subscriber registered removes
\* the oldest entry and appends the new one, the length staying CAP; a
\* subscriber with evicted unread messages gets, on its next read, a Lagged that
\* covers them all and not a Message.
C6_Evict ==
    /\ [][\A m \in Values :
            (publish_immediate(m) /\ Len(queue) = CAP /\ subscriber_count >= 1) =>
                /\ queue' = Append(Tail(queue),
                                   [msg |-> m, clones |-> 0, cnt |-> subscriber_count])
                /\ Len(queue') = CAP
                /\ next_message_id' = next_message_id + 1]_vars
    /\ [](Read /\ last.lag > 0 =>
              /\ last.res = "Lagged"
              /\ sub_next_id[last.who] >= last.id + last.lag)

\* C6 witness: publish_immediate has evicted an entry that a registered
\* subscriber had not read
C6_Witness ==
    /\ last.op = "publish_immediate"
    /\ Len(queue) = CAP
    /\ \E s \in Subs : sub_alive[s] /\ missed[s] > 0

\* C7: last-reader move.  A read that returns a Message returns the stored
\* original exactly when it pops the entry, which then was the oldest one and
\* had no other pending reader; every other read returns a clone and leaves the
\* entry, with a pending reader or behind an older entry, in the queue.
C7_LastReaderMove ==
    /\ \A i \in 1 .. Len(queue) : queue[i].clones = 0
    /\ (Read /\ last.res = "Message") =>
           \/ /\ last.clones = 0
              /\ start_id = last.id + 1
           \/ /\ last.clones = 1
              /\ start_id <= last.id
              /\ last.id - start_id + 1 \in 1 .. Len(queue)
              /\ queue[last.id - start_id + 1].msg = last.val
              /\ (last.id = start_id => queue[1].cnt > 0)

\* C7 witness: the second of two registered subscribers reads a message and
\* gets the original
C7_Witness ==
    /\ Read
    /\ last.res = "Message"
    /\ last.clones = 0
    /\ subscriber_count = 2
    /\ \E s \in Subs \ {last.who} : sub_alive[s] /\ delivered[s] = last.id

\* a future that is suspended: not being polled and with no wake-up pending
suspended(f) == fut[f] # "None" /\ pc[f] = "idle" /\ ~woken[f]

\* C8: with a subscriber registered, a publish that is suspended with no wake-up
\* pending still has a queued entry whose pop will wake it, so that it completes.
C8_PublishProgress ==
    (suspended(PubFut) /\ subscriber_count >= 1) => queue # <<>>

\* C9: no lost wake-up.  A subscriber's next_message is never suspended with no
\* wake-up pending while the message its cursor stands at is in the queue.
C9_NoLostWakeup ==
    \A s \in Subs :
        suspended(s) => ~(start_id <= sub_next_id[s] /\ sub_next_id[s] < next_message_id)

\* C10: when the drop of a subscriber leaves no subscriber registered, the queue
\* is empty.
C10_EmptyAfterLastDrop ==
    (last.op = "drop_sub" /\ subscriber_count = 0) => queue = <<>>

\* C11: space() is the capacity minus the number of queued entries.  An accepted
\* try_publish with a subscriber registered lowers it by one; a read that returns
\* a Message raises it by one when the entry is the oldest one and no other
\* registered subscriber has still to read it, and leaves it unchanged otherwise.
C11_Space ==
    [][/\ \A m \in Values :
            (try_publish(m) /\ subscriber_count >= 1 /\ last'.res = "Ok") =>
                space' = space - 1
       /\ \A s \in Subs :
            (try_next_message(s) /\ last'.res = "Message") =>
                IF /\ sub_next_id[s] = start_id
                   /\ ~\E o \in Subs \ {s} :
                          sub_alive[o] /\ sub_next_id[o] <= sub_next_id[s]
                THEN space' = space + 1
                ELSE space' = space]_vars

\* C12: Sub::available() is next_message_id minus the subscriber's cursor.  It is
\* 0 right after subscriber(), grows by one for every registered subscriber with
\* each accepted publish, shrinks by one for the reader with each Message (by n
\* with Lagged(n)), and is not changed by the reads of another subscriber.
C12_Available ==
    [][/\ \A s \in Subs :
            subscriber(s) => available(sub_next_id[s])' = 0
       /\ \A m \in Values :
            ((try_publish(m) \/ publish_immediate(m))
                /\ subscriber_count >= 1 /\ last'.res = "Ok") =>
                \A s \in Subs :
                    sub_alive[s] =>
                        available(sub_next_id[s])' = available(sub_next_id[s]) + 1
       /\ \A s \in Subs :
            try_next_message(s) =>
                /\ available(sub_next_id[s])' =
                       available(sub_next_id[s])
                         - (CASE last'.res = "Message" -> 1
                              [] last'.res = "Lagged" -> last'.val
                              [] OTHER -> 0)
                /\ available(sub_next_id[s])' >= 0
                /\ \A o \in Subs \ {s} :
                       sub_alive[o] =>
                           available(sub_next_id[o])' = available(sub_next_id[o])]_vars

\* C12 witness: a subscriber has read a Message and has one more to read while
\* the other subscriber, which read nothing, has two
C12_Witness ==
    /\ Read
    /\ last.res = "Message"
    /\ available(sub_next_id[last.who]) = 1
    /\ \E o \in Subs \ {last.who} : sub_alive[o] /\ available(sub_next_id[o]) = 2

\* C13: a subscriber receives only messages published after its creation: the
\* Message it reads, and every message counted by a Lagged it reads, has an id
\* that was given out after the subscriber was created.
C13_OnlyLater ==
    /\ \A s \in Subs : sub_alive[s] => sub_next_id[s] >= joined[s]
    /\ (Read /\ last.res \in {"Message", "Lagged"}) =>
           /\ last.id >= joined[last.who]
           /\ last.res = "Lagged" => last.val <= next_message_id - joined[last.who]

\* C13 witness: a subscriber reads a Message while a message that was accepted
\* before its creation is still in the queue
C13_Witness ==
    /\ Read
    /\ last.res = "Message"
    /\ queue # <<>>
    /\ start_id < joined[last.who]

\* after the last list operation the list is as it should be: no panic, and a
\* traversal from the head returns and visits the linked nodes in their order
GoodAfter ==
    /\ ~list_panicked
    /\ ~list_last.hang
    /\ list_last.trav = order
    /\ list_len = Len(order)

\* C14: list order.  Starting from the empty list, after every insert_tail a
\* for_each from the head visits the inserted nodes in insertion order, each
\* once, and it still visits the remaining ones in order after the head element
\* is removed through the cursor.
C14_ListOrder ==
    /\ (list_last.op = "insert_tail" /\ list_last.was_good) => GoodAfter
    /\ (list_last.op = "remove" /\ list_last.was_good /\ list_last.node # NoNode
            /\ list_last.node = list_last.links_before.head) => GoodAfter

\* C15: guard auto-removal.  The drop of a guard whose node is linked does not
\* panic and unlinks the node: the length drops by one, no traversal visits the
\* node any more, and if the list was in order before, the remaining nodes are
\* traversed in their order.
C15_GuardAutoRemoval ==
    (list_last.op = "item_drop" /\ list_last.linked) =>
        /\ ~list_panicked
        /\ node_links[list_last.node] = Unlinked
        /\ list_len = list_last.len_before - 1
        /\ \A i \in 1 .. Len(list_last.trav) : list_last.trav[i] # list_last.node
        /\ list_last.was_good => GoodAfter

\* C16: removing a node that is Unlinked (Item::remove or the drop of a guard
\* that is not linked) does not panic and changes nothing of the list.
C16_RemoveUnlinkedNoop ==
    [][\A n \in Nodes :
          ((item_remove(n) \/ item_drop(n)) /\ node_links[n].kind = "Unlinked") =>
              /\ ~list_panicked'
              /\ list_len' = list_len
              /\ list_links' = list_links
              /\ node_links' = node_links]_vars

\* C17: seek(index) with index below the length leaves the cursor on the element
\* at position index, with index() = index, wherever the cursor stood before.
C17_Seek ==
    (list_last.op = "seek" /\ list_last.arg < list_len /\ list_len = Len(order)) =>
        /\ ~list_panicked
        /\ index = list_last.arg
        /\ current = order[list_last.arg + 1]

\* C18: retain(f) started at the head of a list that is in order does not panic,
\* calls f once on every element in list order, and leaves exactly the elements
\* f kept, in their order.
C18_Retain ==
    (list_last.op = "retain" /\ list_last.was_good /\ list_last.at_head
            /\ list_last.before # <<>>) =>
        /\ NodesOf(list_last.visited) = list_last.before
        /\ GoodAfter

\* C19: insert(index, item) on a list of length L that is in order puts the item
\* at position min(index, L), keeps the other elements in their order and makes
\* the length L + 1.
C19_Insert ==
    (list_last.op = "insert" /\ list_last.was_good) =>
        /\ list_len = list_last.len_before + 1
        /\ GoodAfter

\* C20: insert_before(item, f), scanning a list that is in order from its head,
\* puts the item right before the first element f is true on, or at the head if
\* there is none, and returns the index the item then has.
C20_InsertBefore ==
    (list_last.op = "insert_before" /\ list_last.was_good /\ list_last.at_head) =>
        /\ list_last.ret = (IF list_last.arg = -1 THEN 0 ELSE list_last.arg)
        /\ GoodAfter

\* C21: insert_after(item, f), scanning a list that is in order from its head,
\* puts the item right after the first element f is true on and returns the
\* matched index plus one; with no match it appends the item at the tail and
\* returns the new length minus one.
C21_InsertAfter ==
    (list_last.op = "insert_after" /\ list_last.was_good /\ list_last.at_head) =>
        /\ list_last.ret = (IF list_last.arg = -1 THEN list_last.len_before
                            ELSE list_last.arg + 1)
        /\ GoodAfter

\* C22: wake de-duplication.  After a register or an update with a waker the
\* registrar holds exactly one entry that wakes that waker's task, and a wake()
\* invokes no task's wake callback twice.
C22_WakeDedup ==
    /\ (last.op \in {"register", "update"}) =>
           Cardinality({i \in DOMAIN subscriber_wakers :
                           will_wake(subscriber_wakers[i].waker, last.val)}) = 1
    /\ (last.op = "wake") =>
           \A i, j \in DOMAIN last.calls : i # j => last.calls[i] # last.calls[j]

\* C23: wake() is a one-shot broadcast.  A wake() invokes one callback per entry
\* it finds and leaves the registrar empty, and a wake() that directly follows
\* another wake() invokes no callback.
C23_WakeOneShot ==
    (last.op = "wake") =>
        /\ Len(last.calls) = last.val
        /\ subscriber_wakers = <<>>
        /\ last.again => last.calls = <<>>

\* something of the list still points at node n: the head or the tail of the
\* list, the cursor, or a link of another node that is linked
Referenced(n) ==
    \/ list_links.head = n
    \/ list_links.tail = n
    \/ current = n
    \/ \E m \in Nodes \ {n} :
          /\ node_links[m].kind # "Unlinked"
          /\ n \in {NodeLinks_next(node_links[m]), NodeLinks_prev(node_links[m])}

\* C24: cancellation safety.  A registration is a guard whose node was pushed to
\* the registrar's list; dropping the future drops the guard.  The drop of a
\* linked guard completes without a panic, and nothing of the list points at the
\* storage of a guard that is gone, so that no later traversal (wake) or insert
\* (register) touches it.
C24_CancellationSafety ==
    /\ (list_last.op = "item_drop" /\ list_last.linked) => ~list_panicked
    /\ \A n \in Nodes : ~item_alive[n] => ~Referenced(n)

\* C25: pending-count invariant.  The pending count stored with every queued
\* entry is the number of registered subscribers whose cursor is at or before
\* the id of the entry, wherever those cursors are.
C25_PendingCount ==
    ~panicked =>
        \A i \in 1 .. Len(queue) :
            queue[i].cnt =
                Cardinality({s \in Subs : sub_alive[s] /\ sub_next_id[s] <= start_id + i - 1})

\* the nodes met from node n by following the next links (forward) or the prev
\* links (backward), at most k of them
RECURSIVE Walk(_, _, _)
Walk(n, k, forward) ==
    IF n = NoNode \/ k = 0 THEN <<>>
    ELSE <<n>> \o Walk(IF forward THEN NodeLinks_next(node_links[n])
                                  ELSE NodeLinks_prev(node_links[n]), k - 1, forward)

\* the link state a node has at position i of a chain of n nodes
KindAt(i, n) ==
    IF n = 1 THEN "Single" ELSE IF i = 1 THEN "Head" ELSE IF i = n THEN "Tail" ELSE "Full"

\* C26: chain invariant.  While no operation has panicked, the linked nodes form
\* one acyclic doubly-linked chain: following next from the head of the list
\* visits every linked node once and ends at the tail after len - 1 steps,
\* following prev from the tail gives the reverse order, every node is Single,
\* Head, Tail or Full according to its position, and the list is empty exactly
\* when head and tail are unset.
C26_Chain ==
    ~list_panicked =>
        LET linked == {n \in Nodes : node_links[n].kind # "Unlinked"}
            fw == Walk(list_links.head, NumNodes + 1, TRUE)
            bw == Walk(list_links.tail, NumNodes + 1, FALSE)
        IN  /\ Len(fw) = list_len
            /\ Cardinality(linked) = list_len
            /\ {fw[i] : i \in DOMAIN fw} = linked
            /\ list_len > 0 => fw[Len(fw)] = list_links.tail
            /\ Len(bw) = Len(fw)
            /\ \A i \in DOMAIN bw : bw[i] = fw[Len(fw) + 1 - i]
            /\ \A i \in DOMAIN fw : node_links[fw[i]].kind = KindAt(i, Len(fw))
            /\ (list_len = 0) <=> (list_links.head = NoNode /\ list_links.tail = NoNode)

\* the elements one scan for the first element in match visits: from the
\* element of the cursor (the head when the cursor is unset) to the first
\* element in match, or to the tail when there is none
ScanOf(match) ==
    LET p == IF current = NoNode THEN 1
             ELSE CHOOSE i \in 1 .. Len(order) : order[i] = current
        m == FirstMatch(order, p, match)
    IN  SubSeq(order, p, IF m = 0 THEN Len(order) ELSE m)

\* C27: single-scan traversal.  A traversal (position, and with it any, all and
\* find, which run the same fold) with the cursor unset or on an element of the
\* list returns, and has called f on the elements from the cursor's element on,
\* in list order, each once, up to the first element that satisfies f or else
\* up to the tail; on an empty list f is not called and no element is found.
C27_SingleScan ==
    [][\A match \in SUBSET Nodes :
          (/\ cursor_position(match)
           /\ current = NoNode \/ \E i \in 1 .. Len(order) : order[i] = current) =>
              /\ ~list_last'.hang
              /\ ~list_panicked'
              /\ NodesOf(list_last'.visited) = ScanOf(match)
              /\ (list_last'.ret >= 0) <=> (\E i \in DOMAIN ScanOf(match) : ScanOf(match)[i] \in match)]_vars

C29_CursorAtInserted ==
    /\ (list_last.op = "insert_head" /\ ~list_panicked) =>
           current = list_last.node /\ index = 0
    /\ (list_last.op = "insert_tail" /\ ~list_panicked) =>
           current = list_last.node /\ index = list_len - 1

\* C30: guard data exclusivity.  Item::lock lets the owner reach the data
\* without the lock of the list only when it finds the node Unlinked, and no
\* traversal of the list by a cursor visits the data of a node while its owner
\* holds it borrowed that way.
C30_GuardExclusive ==
    /\ (list_last.op = "lock" /\ list_last.ret = 0) => ~list_last.linked
    /\ (list_last.op = "lock" /\ list_last.ret = 1) => list_last.linked
    /\ (list_last.op = "for_each") =>
           \A i \in DOMAIN list_last.visited : list_last.visited[i][2] \notin borrowed

\* C31: MultiWakerRegistrar::update on a Registered registration keeps the
\* number of entries: when the stored waker wakes another task it is replaced in
\* place, otherwise nothing changes, and the registration never has a second
\* entry.
C31_UpdateInPlace ==
    [][\A f \in Futs, w \in Tasks :
          (reg_update(f, w) /\ reg[f] = "Registered") =>
              /\ Len(subscriber_wakers') = Len(subscriber_wakers)
              /\ reg'[f] = "Registered"
              /\ \A i \in DOMAIN subscriber_wakers :
                     /\ subscriber_wakers'[i].node = subscriber_wakers[i].node
                     /\ subscriber_wakers'[i].waker =
                            IF subscriber_wakers[i].node = f
                            THEN w
                            ELSE subscriber_wakers[i].waker
              /\ Cardinality({i \in DOMAIN subscriber_wakers' :
                                 subscriber_wakers'[i].node = f}) = 1]_vars

\* C31 witness: an update has replaced the waker of a registration in a list of
\* two entries
C31_Witness ==
    /\ last.op = "update"
    /\ last.prev # -1
    /\ last.prev # last.val
    /\ Len(subscriber_wakers) >= 2
    /\ StoredWaker(subscriber_wakers, last.who, reg[last.who]) = last.val

\* C32: lock validation.  In a debug build an operation that brings the cursor
\* or the remove of one list together with a guard of another list panics, and
\* the head, the tail and the length of both lists stay as they were.
C32_LockValidation ==
    [][\A n \in Nodes :
          (/\ debug_assertions
           /\ n \in other.items
           /\ cursor_insert_head(n) \/ cursor_insert_tail(n) \/ item_remove(n)) =>
              /\ list_panicked'
              /\ list_len' = list_len
              /\ list_links' = list_links
              /\ other' = other]_vars

\* C33: Deque<T, N> refines a bounded double-ended sequence.  After any calls of
\* push_back, push_front, pop_front and pop_back the iteration from front to
\* back yields the elements of the sequence, len() is its length and at most N,
\* and every call returned what the sequence returns: Err(item) with nothing
\* changed for a push on a full deque, None for a pop on an empty one.
C33_DequeRefines ==
    /\ iter(deque) = deque_ref
    /\ deque.len = Len(deque_ref)
    /\ deque.len <= capacity(deque)
    /\ deque.start \in DOMAIN deque.buffer
    /\ deque_last.ret = deque_last.want

\* C33 witness: a push was rejected by a full deque whose contents wrap around
\* the end of the buffer
C33_Witness ==
    /\ deque_last.op = "push_back"
    /\ deque_last.ret.tag = "Err"
    /\ capacity(deque) = MaxDequeN
    /\ deque.start > 0
    /\ iter(deque) = deque_ref

\* C34: no stuck channel.  Whenever every registered subscriber has read
\* everything published (its cursor is the channel's next_message_id) the queue
\* is empty, so that the channel is not full and the next try_publish is
\* accepted.
C34_NoStuckChannel ==
    (~panicked /\ \A s \in Subs : sub_alive[s] => sub_next_id[s] = next_message_id) =>
        queue = <<>>

\* C35: a live registration implies a wake path.  While a future holds a
\* registration that register or update returned for a waker, and the task of
\* that waker was not woken since, the registrar has an entry that wakes that
\* task.
C35_WakePath ==
    \A f \in Futs :
        (reg[f] # "Empty" /\ ~woken[f]) =>
            \E i \in DOMAIN subscriber_wakers :
                will_wake(subscriber_wakers[i].waker, task[f])

\* C36: cursor index agreement.  After a cursor move, an insertion or a removal
\* that leaves the cursor on an element of a list that is not empty, index() is
\* the number of elements that precede that element in the list.
C36_IndexAgrees ==
    (/\ ~list_panicked
     /\ list_last.op \in {"seek", "seek_tail", "seek_next", "seek_prev", "insert_head",
                          "insert_tail", "insert", "remove", "item_remove"}
     /\ \E i \in 1 .. Len(order) : order[i] = current) =>
        /\ index < Len(order)
        /\ order[index + 1] = current

\* C37: re-inserting a linked node is safe.  After insert_tail or insert_head
\* with a node that is linked into a well-formed list the call has returned, a
\* traversal from the head ends and meets that node exactly once, and the length
\* of the list is the number of linked nodes.
C37_ReinsertSafe ==
    (list_last.op \in {"reinsert_tail", "reinsert_head"} /\ list_last.was_good) =>
        /\ ~list_panicked
        /\ list_last.trav # <<-1>>
        /\ Cardinality({i \in DOMAIN list_last.trav :
                           list_last.trav[i] = list_last.node}) = 1
        /\ list_len = Cardinality({n \in Nodes : node_links[n].kind # "Unlinked"})

\* C38: id bounds.  The channel's next_message_id is at least the length of the
\* queue and at least the cursor of every registered subscriber, so that
\* start_id, the index of a message and available() do not underflow; no
\* pending count is below zero and no subtraction has panicked.
C38_IdBounds ==
    /\ ~panicked
    /\ next_message_id >= Len(queue)
    /\ \A s \in Subs : sub_alive[s] => available(sub_next_id[s]) >= 0
    /\ \A i \in DOMAIN queue : queue[i].cnt >= 0

\* C38 witness: a subscriber that had lagged was moved to the oldest queued
\* message, with a full queue that holds every message published so far but one
C38_Witness ==
    /\ last.op = "try_next_message"
    /\ last.res = "Lagged"
    /\ sub_alive[last.who]
    /\ sub_next_id[last.who] = start_id
    /\ Len(queue) = CAP
    /\ next_message_id = CAP + 1

====
